---- MODULE Spec2Model ----
(***************************************************************************)
(* A model of the spreadsheet engine: the formula language (scan, the      *)
(* recursive-descent parser, Ast.toString and CellRef), the coordinate     *)
(* helpers, the Spreadsheet class (eval, delete, copy, clear with their    *)
(* undo log) and the DBSSStore it persists to.                             *)
(*                                                                         *)
(* A JavaScript string is a sequence of one-character strings; a cell id   *)
(* is such a sequence (<<"a", "1">>).  A JavaScript Set is a sequence      *)
(* without repetitions, in insertion order (the order a for-of loop        *)
(* visits it in).  A thrown error is the err field of an operator's        *)
(* result: "" for a normal return, otherwise the AppError code, or         *)
(* "TypeError" for an error that is not an AppError.                       *)
(***************************************************************************)
EXTENDS Integers, Sequences, FiniteSets, TLC

VARIABLES cells, undos, store, last, nops

vars == <<cells, undos, store, last, nops>>

(***************************************************************************)
(* Characters and strings                                                  *)
(***************************************************************************)
LOWER == <<"a", "b", "c", "d", "e", "f", "g", "h", "i", "j", "k", "l", "m",
           "n", "o", "p", "q", "r", "s", "t", "u", "v", "w", "x", "y", "z">>

UPPER == <<"A", "B", "C", "D", "E", "F", "G", "H", "I", "J", "K", "L", "M",
           "N", "O", "P", "Q", "R", "S", "T", "U", "V", "W", "X", "Y", "Z">>

DIGIT == <<"0", "1", "2", "3", "4", "5", "6", "7", "8", "9">>

\* The value of a function on the only element of its domain:
\* Bind([x \in {e} |-> b]) is b with x naming the value of e, for a result
\* that is consulted several times.
Bind(f) == f[CHOOSE x \in DOMAIN f : TRUE]

Range(seq) == {seq[i] : i \in 1..Len(seq)}

IndexOf(seq, c) == CHOOSE i \in 1..Len(seq) : seq[i] = c

DigitChars == Range(DIGIT)

UpperChars == Range(UPPER)

LetterChars == Range(LOWER) \cup UpperChars

IsDigit(c) == c \in DigitChars

IsLetter(c) == c \in LetterChars

\* /[\w\$]/
IsWordChar(c) == IsLetter(c) \/ IsDigit(c) \/ c = "_" \/ c = "$"

IsSpace(c) == c = " "

lowerChar(c) == IF c \in UpperChars THEN LOWER[IndexOf(UPPER, c)] ELSE c

toLowerCase(str) == [i \in 1..Len(str) |-> lowerChar(str[i])]

Drop(str, n) == SubSeq(str, n + 1, Len(str))

RECURSIVE trimStart(_)
trimStart(str) ==
  IF str # <<>> /\ IsSpace(Head(str)) THEN trimStart(Tail(str)) ELSE str

RECURSIVE trimEnd(_)
trimEnd(str) ==
  IF str # <<>> /\ IsSpace(str[Len(str)])
  THEN trimEnd(SubSeq(str, 1, Len(str) - 1))
  ELSE str

trim(str) == trimEnd(trimStart(str))

\* Number(lexeme) for a lexeme of decimal digits.
RECURSIVE Number(_)
Number(digits) ==
  IF digits = <<>> THEN 0
  ELSE 10 * Number(SubSeq(digits, 1, Len(digits) - 1))
       + (IndexOf(DIGIT, digits[Len(digits)]) - 1)

\* String(n) for an integer n: its decimal digits, '-' first when negative.
RECURSIVE NatString(_)
NatString(n) ==
  IF n < 10 THEN <<DIGIT[n + 1]>>
  ELSE NatString(n \div 10) \o <<DIGIT[(n % 10) + 1]>>

String(n) == IF n < 0 THEN <<"-">> \o NatString(-n) ELSE NatString(n)

\* The longest prefix of str made of characters satisfying the class.
RECURSIVE DigitPrefixLen(_)
DigitPrefixLen(str) ==
  IF str # <<>> /\ IsDigit(Head(str)) THEN 1 + DigitPrefixLen(Tail(str)) ELSE 0

RECURSIVE WordPrefixLen(_)
WordPrefixLen(str) ==
  IF str # <<>> /\ IsWordChar(Head(str)) THEN 1 + WordPrefixLen(Tail(str)) ELSE 0

(***************************************************************************)
(* Coordinates (util.mjs)                                                  *)
(***************************************************************************)
MAX_N_COLS == 26

MAX_N_ROWS == 9999

\* cellRef.toLowerCase().replace(/\$/g, '')
cellRefToCellId(cellRef) == SelectSeq(toLowerCase(cellRef), LAMBDA c : c # "$")

colSpecToIndex(colSpec) == IndexOf(LOWER, colSpec[1]) - 1

indexToColSpec(index, baseIndex) ==
  LET absIndex == baseIndex + index
  IN  IF absIndex < 0 \/ absIndex >= MAX_N_COLS
      THEN [err |-> "SYNTAX", str |-> <<>>]
      ELSE [err |-> "", str |-> <<LOWER[absIndex + 1]>>]

rowSpecToIndex(rowSpec) ==
  Bind([index \in {Number(rowSpec) - 1} |->
    IF index >= MAX_N_ROWS
    THEN [err |-> "LIMITS", index |-> 0]
    ELSE [err |-> "", index |-> index]])

\* A row printer without the range check.
indexToRowSpecUnchecked(index, baseIndex) ==
  [err |-> "", str |-> String(baseIndex + index + 1)]

indexToRowSpec(index, baseIndex) ==
  LET absIndex == baseIndex + index
  IN  IF absIndex < 0 \/ absIndex >= MAX_N_ROWS
      THEN [err |-> "SYNTAX", str |-> <<>>]
      ELSE [err |-> "", str |-> String(absIndex + 1)]

(***************************************************************************)
(* CellRef (expr-parser.mjs)                                               *)
(***************************************************************************)
\* baseCell is a CellRef, or NullRef for JavaScript's null (whose
\* baseCell?.col?.index ?? 0 is 0).
NullRef == [col |-> [isAbs |-> FALSE, index |-> 0],
            row |-> [isAbs |-> FALSE, index |-> 0]]

\* The match of /^(\$?)([a-zA-Z])(\$?)([1-9]\d*)$/ on str.
CellRefMatch(str) ==
  LET isAbsCol == str # <<>> /\ str[1] = "$"
      i        == IF str # <<>> /\ str[1] = "$" THEN 2 ELSE 1
  IN  Bind([hasCol \in {Len(str) >= i /\ IsLetter(str[i])} |->
      Bind([isAbsRow \in {hasCol /\ Len(str) > i /\ str[i + 1] = "$"} |->
      Bind([row \in {IF ~hasCol THEN <<>>
                     ELSE Drop(str, IF isAbsRow THEN i + 1 ELSE i)} |->
        [ok       |-> /\ hasCol
                      /\ row # <<>>
                      /\ \A k \in 1..Len(row) : IsDigit(row[k])
                      /\ row[1] # "0",
         isAbsCol |-> isAbsCol,
         col      |-> IF hasCol THEN <<str[i]>> ELSE <<>>,
         isAbsRow |-> isAbsRow,
         row      |-> row]])])])

\* new CellRef(str, baseCell)
CellRef(str0, baseCell) ==
  Bind([str \in {toLowerCase(trim(str0))} |->
    IF str = <<>>
    THEN [err |-> "",
          col |-> [isAbs |-> FALSE, index |-> baseCell.col.index],
          row |-> [isAbs |-> FALSE, index |-> baseCell.row.index]]
    ELSE
      Bind([m \in {CellRefMatch(str)} |->
        IF ~m.ok
        THEN [err |-> "SYNTAX", col |-> NullRef.col, row |-> NullRef.row]
        ELSE
          Bind([r \in {rowSpecToIndex(m.row)} |->
            IF r.err # ""
            THEN [err |-> r.err, col |-> NullRef.col, row |-> NullRef.row]
            ELSE [err |-> "",
                  col |-> [isAbs |-> m.isAbsCol,
                           index |-> colSpecToIndex(m.col)
                                     - (IF m.isAbsCol THEN 0
                                        ELSE baseCell.col.index)],
                  row |-> [isAbs |-> m.isAbsRow,
                           index |-> r.index
                                     - (IF m.isAbsRow THEN 0
                                        ELSE baseCell.row.index)]]])])])

\* CellRef.prototype.toString(baseCell), of the reference ref
CellRefToString(ref, baseCell) ==
  Bind([c \in {indexToColSpec(ref.col.index,
                              IF ref.col.isAbs THEN 0
                              ELSE baseCell.col.index)} |->
    IF c.err # "" THEN [err |-> c.err, str |-> <<>>]
    ELSE
      Bind([r \in {indexToRowSpec(ref.row.index,
                                  IF ref.row.isAbs THEN 0
                                  ELSE baseCell.row.index)} |->
        IF r.err # "" THEN [err |-> r.err, str |-> <<>>]
        ELSE [err |-> "",
              str |-> (IF ref.col.isAbs THEN <<"$">> ELSE <<>>) \o c.str
                      \o (IF ref.row.isAbs THEN <<"$">> ELSE <<>>)
                      \o r.str]])])

(***************************************************************************)
(* FNS, the lexer and the parser (expr-parser.mjs)                         *)
(***************************************************************************)
MAX_PREC == 100

PLUS == <<"+">>

MINUS == <<"-">>

TIMES == <<"*">>

DIVIDE == <<"/">>

MAX == <<"m", "a", "x">>

MIN == <<"m", "i", "n">>

\* The own keys of the parser's FNS object.
FNS_KEYS == {PLUS, MINUS, TIMES, DIVIDE, MAX, MIN}

\* FNS is a plain object: FNS[lexeme] is also truthy for the property names
\* it inherits from Object.prototype.
OBJECT_PROTOTYPE_KEYS ==
  { <<"c", "o", "n", "s", "t", "r", "u", "c", "t", "o", "r">>,
    <<"h", "a", "s", "O", "w", "n", "P", "r", "o", "p", "e", "r", "t", "y">>,
    <<"i", "s", "P", "r", "o", "t", "o", "t", "y", "p", "e", "O", "f">>,
    <<"p", "r", "o", "p", "e", "r", "t", "y", "I", "s", "E", "n", "u", "m", "e", "r", "a", "b", "l", "e">>,
    <<"t", "o", "L", "o", "c", "a", "l", "e", "S", "t", "r", "i", "n", "g">>,
    <<"t", "o", "S", "t", "r", "i", "n", "g">>,
    <<"v", "a", "l", "u", "e", "O", "f">>,
    <<"_", "_", "d", "e", "f", "i", "n", "e", "G", "e", "t", "t", "e", "r", "_", "_">>,
    <<"_", "_", "d", "e", "f", "i", "n", "e", "S", "e", "t", "t", "e", "r", "_", "_">>,
    <<"_", "_", "l", "o", "o", "k", "u", "p", "G", "e", "t", "t", "e", "r", "_", "_">>,
    <<"_", "_", "l", "o", "o", "k", "u", "p", "S", "e", "t", "t", "e", "r", "_", "_">>,
    <<"_", "_", "p", "r", "o", "t", "o", "_", "_">> }

\* FNS[fn]?.prec, with 0 for undefined.
FnPrec(fn) ==
  IF fn \in {PLUS, MINUS} THEN 10
  ELSE IF fn \in {TIMES, DIVIDE} THEN 20
  ELSE 0

\* FNS[fn].type is 'left'.
FnIsLeft(fn) == fn \in {PLUS, MINUS, TIMES, DIVIDE}

EndTok == [type |-> "<END>", lexeme |-> <<"<", "E", "N", "D", ">">>, value |-> <<>>]

\* tokens.push(tok) ahead of the tokens of the rest of the string.
pushTok(tok, rest) ==
  IF rest.err # "" THEN rest ELSE [err |-> "", toks |-> <<tok>> \o rest.toks]

\* scan(str, baseCell): the tokens of str, or the error new CellRef throws.
RECURSIVE scan(_, _)
scan(str0, baseCell) ==
  Bind([str \in {trimStart(str0)} |->
    IF str = <<>> THEN [err |-> "", toks |-> <<EndTok>>]
    ELSE IF IsDigit(str[1])
    THEN Bind([lexeme \in {SubSeq(str, 1, DigitPrefixLen(str))} |->
           pushTok([type |-> "num", lexeme |-> lexeme,
                    value |-> Number(lexeme)],
                   scan(Drop(str, Len(lexeme)), baseCell))])
    ELSE IF IsWordChar(str[1])
    THEN Bind([lexeme \in {SubSeq(str, 1, WordPrefixLen(str))} |->
           IF lexeme \in FNS_KEYS \cup OBJECT_PROTOTYPE_KEYS
           THEN pushTok([type |-> "fn", lexeme |-> lexeme],
                        scan(Drop(str, Len(lexeme)), baseCell))
           ELSE Bind([ref \in {CellRef(lexeme, baseCell)} |->
                  IF ref.err # "" THEN [err |-> ref.err, toks |-> <<>>]
                  ELSE pushTok([type |-> "ref", lexeme |-> lexeme,
                                value |-> [col |-> ref.col, row |-> ref.row]],
                               scan(Drop(str, Len(lexeme)), baseCell))])])
    ELSE pushTok([type |-> str[1], lexeme |-> <<str[1]>>, value |-> <<>>],
                 scan(Drop(str, 1), baseCell))])

\* Ast nodes: new Ast(type, kids) with the properties the parser adds.
NumAst(value) == [type |-> "num", kids |-> <<>>, value |-> value]

RefAst(value) == [type |-> "ref", kids |-> <<>>, value |-> value]

AppAst(fn, kids) == [type |-> "app", kids |-> kids, fn |-> fn]

\* JavaScript's null, the ast of a cell without a formula.
NullAst == [type |-> "null"]

\* A parser method's result: the error thrown, or the node built and the
\* position of the current token (this.tok is toks[p]).
Threw(err) == [err |-> err, ast |-> NullAst, p |-> 0]

Parsed(ast, p) == [err |-> "", ast |-> ast, p |-> p]

\* match(type): the position after it, 0 when it throws SYNTAX.
match(toks, p, type) ==
  IF toks[p].type = type
  THEN IF type # "<END>" THEN p + 1 ELSE p
  ELSE 0

RECURSIVE expr(_, _), exprLoop(_, _, _), term(_, _), termLoop(_, _, _),
          factor(_, _), moreArgs(_, _, _)

expr(toks, p) ==
  Bind([t0 \in {term(toks, p)} |->
    IF t0.err # "" THEN t0 ELSE exprLoop(toks, t0.ast, t0.p)])

\* while (this.tok.type === '+' || this.tok.type === '-') ...
exprLoop(toks, t0, p) ==
  IF toks[p].type \in {"+", "-"}
  THEN Bind([t1 \in {term(toks, p + 1)} |->
         IF t1.err # "" THEN t1
         ELSE exprLoop(toks, AppAst(<<toks[p].type>>, <<t0, t1.ast>>), t1.p)])
  ELSE Parsed(t0, p)

term(toks, p) ==
  Bind([f0 \in {factor(toks, p)} |->
    IF f0.err # "" THEN f0 ELSE termLoop(toks, f0.ast, f0.p)])

\* while (this.tok.type === '*' || this.tok.type === '/') ...
termLoop(toks, f0, p) ==
  IF toks[p].type \in {"*", "/"}
  THEN Bind([f1 \in {factor(toks, p + 1)} |->
         IF f1.err # "" THEN f1
         ELSE termLoop(toks, AppAst(<<toks[p].type>>, <<f0, f1.ast>>), f1.p)])
  ELSE Parsed(f0, p)

\* The arguments of a function call after the first:
\* while (this.tok.type === ',') { nextTok(); args.push(this.expr()); }
moreArgs(toks, sofar, p) ==
  IF toks[p].type = ","
  THEN Bind([e \in {expr(toks, p + 1)} |->
         IF e.err # "" THEN [err |-> e.err, kids |-> <<>>, p |-> 0]
         ELSE moreArgs(toks, Append(sofar, e.ast), e.p)])
  ELSE [err |-> "", kids |-> sofar, p |-> p]

\* this.match(type) after a node was parsed: the node with the position
\* after the token, or the SYNTAX error match throws.
thenMatch(toks, ast, p, type) ==
  IF match(toks, p, type) = 0 THEN Threw("SYNTAX")
  ELSE Parsed(ast, match(toks, p, type))

factor(toks, p) ==
  CASE toks[p].type = "(" ->
         Bind([e \in {expr(toks, p + 1)} |->
           IF e.err # "" THEN e ELSE thenMatch(toks, e.ast, e.p, ")")])
    [] toks[p].type = "ref" -> Parsed(RefAst(toks[p].value), p + 1)
    [] toks[p].type = "-" ->
         Bind([operand \in {factor(toks, p + 1)} |->
           IF operand.err # "" THEN operand
           ELSE Parsed(AppAst(MINUS, <<operand.ast>>), operand.p)])
    [] toks[p].type = "fn" ->
         IF match(toks, p + 1, "(") = 0 THEN Threw("SYNTAX")
         ELSE
           Bind([first \in {expr(toks, p + 2)} |->
             IF first.err # "" THEN first
             ELSE
               Bind([more \in {moreArgs(toks, <<first.ast>>, first.p)} |->
                 IF more.err # "" THEN Threw(more.err)
                 ELSE thenMatch(toks, AppAst(toks[p].lexeme, more.kids),
                                more.p, ")")])])
    [] OTHER ->
         IF match(toks, p, "num") = 0 THEN Threw("SYNTAX")
         ELSE Parsed(NumAst(toks[p].value), p + 1)

\* parseExpr(str, baseCellId): new ExprParser(str, baseCellId).parse()
parseExpr(str, baseCellId) ==
  Bind([baseCell \in {CellRef(baseCellId, NullRef)} |->
    IF baseCell.err # "" THEN Threw(baseCell.err)
    ELSE
      Bind([scanned \in {scan(str, [col |-> baseCell.col,
                                    row |-> baseCell.row])} |->
        IF scanned.err # "" THEN Threw(scanned.err)
        ELSE
          Bind([e \in {expr(scanned.toks, 1)} |->
            IF e.err # "" THEN e
            ELSE thenMatch(scanned.toks, e.ast, e.p, "<END>")])])])

(***************************************************************************)
(* Ast.toString (expr-parser.mjs)                                          *)
(***************************************************************************)
\* FNS[kid.fn]?.prec ?? MAX_PREC; 0 stands for undefined in FnPrec.
KidPrec(kid) ==
  IF kid.type = "app" /\ FnPrec(kid.fn) # 0 THEN FnPrec(kid.fn) ELSE MAX_PREC

\* A printer that never parenthesizes.
ParenNever(isParen, str) == str

\* Ast.left(isParen) + str + Ast.right(isParen)
Paren(isParen, str) == IF isParen THEN <<"(">> \o str \o <<")">> ELSE str

RECURSIVE AstToString(_, _), KidsToString(_, _, _)

\* this.kids.map(k => k.toString(baseCell)).join(', ') from kid i on
KidsToString(kids, i, baseCell) ==
  IF i > Len(kids) THEN [err |-> "", str |-> <<>>]
  ELSE
    Bind([k \in {AstToString(kids[i], baseCell)} |->
      IF k.err # "" THEN k
      ELSE
        Bind([rest \in {KidsToString(kids, i + 1, baseCell)} |->
          IF rest.err # "" THEN rest
          ELSE [err |-> "",
                str |-> k.str
                        \o (IF i < Len(kids) THEN <<",", " ">> ELSE <<>>)
                        \o rest.str]])])

\* ast.toString(baseCell) with baseCell a CellRef
AstToString(ast, baseCell) ==
  CASE ast.type = "ref" -> CellRefToString(ast.value, baseCell)
    [] ast.type = "num" -> [err |-> "", str |-> String(ast.value)]
    [] ast.type = "app" /\ ~FnIsLeft(ast.fn) ->
         Bind([ks \in {KidsToString(ast.kids, 1, baseCell)} |->
           IF ks.err # "" THEN ks
           ELSE [err |-> "", str |-> ast.fn \o <<"(">> \o ks.str \o <<")">>]])
    [] ast.type = "app" /\ FnIsLeft(ast.fn) /\ Len(ast.kids) = 1 ->
         Bind([k \in {AstToString(ast.kids[1], baseCell)} |->
           IF k.err # "" THEN k
           ELSE [err |-> "",
                 str |-> ast.fn
                         \o Paren(/\ ast.kids[1].type = "app"
                                  /\ FnPrec(ast.kids[1].fn) # 0,
                                  k.str)]])
    [] ast.type = "app" /\ FnIsLeft(ast.fn) /\ Len(ast.kids) # 1 ->
         Bind([k0 \in {AstToString(ast.kids[1], baseCell)} |->
           IF k0.err # "" THEN k0
           ELSE
             Bind([k1 \in {AstToString(ast.kids[2], baseCell)} |->
               IF k1.err # "" THEN k1
               ELSE [err |-> "",
                     str |-> Paren(KidPrec(ast.kids[1]) < FnPrec(ast.fn),
                                   k0.str)
                             \o ast.fn
                             \o Paren(KidPrec(ast.kids[2]) <= FnPrec(ast.fn),
                                      k1.str)]])])

\* ast.toString(baseCellId) with baseCellId a string:
\* baseCell = new CellRef(baseCellId)
toString(ast, baseCellId) ==
  Bind([baseCell \in {CellRef(baseCellId, NullRef)} |->
    IF baseCell.err # "" THEN [err |-> baseCell.err, str |-> <<>>]
    ELSE AstToString(ast, [col |-> baseCell.col, row |-> baseCell.row])])

(***************************************************************************)
(* CellInfo and the evaluator's FNS (util.mjs)                             *)
(***************************************************************************)
\* new CellInfo(id)
CellInfo(id) == [id |-> id, value |-> 0, ast |-> NullAst, dependents |-> <<>>]

\* JavaScript's undefined, as the value this._undos holds for a cell that
\* did not exist.
Undefined == [type |-> "undefined"]

\* An object without properties ({}).
EmptyMap == [k \in {} |-> 0]

\* Set.prototype.add and Set.prototype.delete on an insertion-ordered Set.
SetAdd(set, x) == IF x \in Range(set) THEN set ELSE Append(set, x)

SetDelete(set, x) == SelectSeq(set, LAMBDA y : y # x)

\* Object.assign(target, source)
Assign(target, source) == source @@ target

\* get formula(): this.ast ? this.ast.toString(this.id) : ''
CellInfoFormula(cell) ==
  IF cell.ast = NullAst THEN [err |-> "", str |-> <<>>]
  ELSE toString(cell.ast, cell.id)

RECURSIVE MinOf(_), MaxOf(_)
MinOf(args) ==
  IF Len(args) = 1 THEN args[1]
  ELSE LET m == MinOf(Tail(args)) IN IF args[1] < m THEN args[1] ELSE m

MaxOf(args) ==
  IF Len(args) = 1 THEN args[1]
  ELSE LET m == MaxOf(Tail(args)) IN IF args[1] > m THEN args[1] ELSE m

\* FNS[fn](...args) of the evaluator.  Values are integers: a quotient is
\* modelled where it is one.
Apply(fn, args) ==
  CASE fn = PLUS   -> args[1] + args[2]
    [] fn = MINUS  -> IF Len(args) = 1 THEN 0 - args[1] ELSE args[1] - args[2]
    [] fn = TIMES  -> args[1] * args[2]
    [] fn = DIVIDE /\ args[2] # 0 /\ args[1] % args[2] = 0
                   -> (IF (args[1] < 0) = (args[2] < 0) THEN 1 ELSE -1)
                      * ((IF args[1] < 0 THEN -args[1] ELSE args[1])
                         \div (IF args[2] < 0 THEN -args[2] ELSE args[2]))
    [] fn = MIN    -> MinOf(args)
    [] fn = MAX    -> MaxOf(args)

\* FNS[fn](...args) of the evaluator for a name FNS only inherits from
\* Object.prototype: the method is called with this undefined.  toString
\* answers '[object Undefined]', constructor (Object) wraps its argument,
\* isPrototypeOf answers false for a number; __proto__ is no function and
\* the other methods convert this to an object first: a TypeError.
ApplyInherited(fn, args) ==
  CASE fn = <<"t", "o", "S", "t", "r", "i", "n", "g">> ->
         [err |-> "", value |-> "[object Undefined]"]
    [] fn = <<"c", "o", "n", "s", "t", "r", "u", "c", "t", "o", "r">> ->
         [err |-> "", value |-> [object |-> "Number", primitive |-> args[1]]]
    [] fn = <<"i", "s", "P", "r", "o", "t", "o", "t", "y", "p", "e", "O", "f">> ->
         [err |-> "", value |-> FALSE]
    [] OTHER -> [err |-> "TypeError", value |-> 0]

(***************************************************************************)
(* The store (db-ss-store.mjs).  One sheet is modelled, so the store holds *)
(* one collection: a map from cell ids to formulas.  A world w is the      *)
(* spreadsheet's fields with its store and the store's coming failure:     *)
(* w.failIn = n > 0 makes the n-th database call from now fail, 0 none.    *)
(* A database call that fails changes nothing in the collection.           *)
(***************************************************************************)
DbFails(w) == w.failIn = 1

DbCalled(w) == [w EXCEPT !.failIn = IF @ > 0 THEN @ - 1 ELSE 0]

\* DBSSStore.updateCell(ssName, cellId, formula)
storeUpdateCell(w, cellId, str) ==
  IF DbFails(w) THEN [err |-> "DB", w |-> DbCalled(w)]
  ELSE [err |-> "",
        w |-> [DbCalled(w) EXCEPT !.store = (cellId :> str) @@ @]]

\* DBSSStore.clear(ssName)
storeClear(w) ==
  IF DbFails(w) THEN [err |-> "DB", w |-> DbCalled(w)]
  ELSE [err |-> "", w |-> [DbCalled(w) EXCEPT !.store = EmptyMap]]

\* DBSSStore.delete(ssName, cellId): its catch block calls
\* this.spreadsheet.undo() on a store that has no spreadsheet property, which
\* throws a TypeError before the AppError is built.
storeDelete(w, cellId) ==
  IF DbFails(w) THEN [err |-> "TypeError", w |-> DbCalled(w)]
  ELSE [err |-> "",
        w |-> [DbCalled(w) EXCEPT
                 !.store = [k \in DOMAIN @ \ {cellId} |-> @[k]]]]

\* DBSSStore.readFormulas(ssName): the stored (cellId, formula) pairs, given
\* as the collection itself since find({}) promises no order.
storeReadFormulas(w) ==
  IF DbFails(w) THEN [err |-> "DB", w |-> DbCalled(w), formulas |-> EmptyMap]
  ELSE [err |-> "", w |-> DbCalled(w), formulas |-> w.store]

(***************************************************************************)
(* Spreadsheet's private methods (util.mjs)                                *)
(***************************************************************************)
\* this._cells[cellId] ?? new CellInfo(cellId): the cell _updateCell hands
\* to its update function.
cellOrNew(w, cellId) ==
  IF cellId \in DOMAIN w.cells THEN w.cells[cellId] ELSE CellInfo(cellId)

\* _updateCell(cellId, updateFn): stage the undo on the first touch, create
\* the cell when it is missing, apply updateFn to it.  updated is what
\* updateFn makes of cellOrNew(w, cellId).
_updateCell(w, cellId, updated) ==
  LET undos1 == IF cellId \in DOMAIN w.undos THEN w.undos
                ELSE (cellId :> (IF cellId \in DOMAIN w.cells
                                 THEN w.cells[cellId]
                                 ELSE Undefined)) @@ w.undos
  IN  [w EXCEPT !.undos = undos1,
                !.cells = (cellId :> updated) @@ @]

\* An _undo that puts the staged copies back but forgets the `delete
\* this._cells[k]' branch, so a cell the failed call created stays.
undoWithoutRemoving(w) ==
  [w EXCEPT !.cells = [k \in DOMAIN w.cells |->
                         IF k \in DOMAIN w.undos /\ w.undos[k] # Undefined
                         THEN w.undos[k] ELSE w.cells[k]]]

\* _undo()
_undo(w) ==
  LET restored == {k \in DOMAIN w.undos : w.undos[k] # Undefined}
      removed  == {k \in DOMAIN w.undos : w.undos[k] = Undefined}
  IN  [w EXCEPT !.cells = [k \in (DOMAIN @ \ removed) \cup restored |->
                             IF k \in restored THEN w.undos[k] ELSE @[k]]]

RECURSIVE _evalAst(_, _, _), evalKids(_, _, _, _, _)

\* ast.kids.map(k => this._evalAst(baseCellId, k)) from kid i on
evalKids(w, baseCellId, kids, i, values) ==
  IF i > Len(kids) THEN [err |-> "", w |-> w, values |-> values]
  ELSE
    Bind([k \in {_evalAst(w, baseCellId, kids[i])} |->
      IF k.err # "" THEN [err |-> k.err, w |-> k.w, values |-> values]
      ELSE evalKids(k.w, baseCellId, kids, i + 1, Append(values, k.value))])

_evalAst(w, baseCellId, ast) ==
  CASE ast.type = "null" -> [err |-> "", w |-> w, value |-> 0]
    [] ast.type = "num"  -> [err |-> "", w |-> w, value |-> ast.value]
    [] ast.type = "ref"  ->
         Bind([s \in {toString(ast, baseCellId)} |->
           IF s.err # "" THEN [err |-> s.err, w |-> w, value |-> 0]
           ELSE
             Bind([cellId \in {cellRefToCellId(s.str)} |->
             Bind([cell \in {[cellOrNew(w, cellId) EXCEPT
                                !.dependents = SetAdd(@, baseCellId)]} |->
               [err   |-> "",
                w     |-> _updateCell(w, cellId, cell),
                value |-> cell.value]])])])
    [] ast.type = "app"  ->
         Bind([ks \in {evalKids(w, baseCellId, ast.kids, 1, <<>>)} |->
           IF ks.err # "" THEN [err |-> ks.err, w |-> ks.w, value |-> 0]
           ELSE IF ast.fn \in FNS_KEYS
           THEN [err |-> "", w |-> ks.w, value |-> Apply(ast.fn, ks.values)]
           ELSE Bind([v \in {ApplyInherited(ast.fn, ks.values)} |->
                  [err |-> v.err, w |-> ks.w, value |-> v.value]])])

\* An _evalCell that leaves the dependents of the cell as they are.
evalDependentsSkipped(w, id, i, working, vals) ==
  [err |-> "", w |-> w, vals |-> vals]

RECURSIVE _evalCell(_, _, _), evalDependents(_, _, _, _, _)

\* for (const dependent of cell.dependents) ... from the i-th member on.  The
\* Set is the live one of the cell: members added during the loop are visited.
evalDependents(w, id, i, working, vals) ==
  IF i > Len(w.cells[id].dependents) THEN [err |-> "", w |-> w, vals |-> vals]
  ELSE
    Bind([dependent \in {w.cells[id].dependents[i]} |->
      IF dependent \in working
      THEN [err |-> "CIRCULAR_REF", w |-> w, vals |-> vals]
      ELSE IF dependent \notin DOMAIN w.cells
      \* depCell is undefined: _evalCell reads cell.id of undefined
      THEN [err |-> "TypeError", w |-> w, vals |-> vals]
      ELSE
        Bind([sub \in {_evalCell(w, dependent, working)} |->
          IF sub.err # "" THEN sub
          ELSE evalDependents(sub.w, id, i + 1, working,
                              Assign(vals, sub.vals))])])

\* _evalCell(cell, working) for the cell with this id; working holds the ids
\* of the calls in progress.
_evalCell(w, id, working) ==
  Bind([v \in {_evalAst(w, id, w.cells[id].ast)} |->
    IF v.err # "" THEN [err |-> v.err, w |-> v.w, vals |-> EmptyMap]
    ELSE evalDependents(_updateCell(v.w, id, [cellOrNew(v.w, id) EXCEPT
                                                !.value = v.value]),
                        id, 1, working \cup {id}, id :> v.value)])

RECURSIVE _removeAsDependent(_, _, _), removeKids(_, _, _, _)

\* ast.kids.forEach(k => this._removeAsDependent(baseCellId, k)) from kid i on
removeKids(w, baseCellId, kids, i) ==
  IF i > Len(kids) THEN [err |-> "", w |-> w]
  ELSE
    Bind([k \in {_removeAsDependent(w, baseCellId, kids[i])} |->
      IF k.err # "" THEN k ELSE removeKids(k.w, baseCellId, kids, i + 1)])

_removeAsDependent(w, baseCellId, ast) ==
  CASE ast.type = "app" -> removeKids(w, baseCellId, ast.kids, 1)
    [] ast.type = "ref" ->
         Bind([s \in {toString(ast, baseCellId)} |->
           IF s.err # "" THEN [err |-> s.err, w |-> w]
           ELSE
             Bind([cellId \in {cellRefToCellId(s.str)} |->
               [err |-> "",
                w   |-> _updateCell(w, cellId,
                          [cellOrNew(w, cellId) EXCEPT
                             !.dependents = SetDelete(@, baseCellId)])]])])
    [] OTHER -> [err |-> "", w |-> w]

(***************************************************************************)
(* Spreadsheet's public methods (util.mjs).  Each returns the error thrown *)
(* ("" for none), the world it leaves and the object it returns.           *)
(***************************************************************************)
Returned(w, updates) == [err |-> "", w |-> w, updates |-> updates]

Thrown(err, w) == [err |-> err, w |-> w, updates |-> EmptyMap]

\* An eval that takes the cell out of the dependents of the cells its old
\* formula referred to after it has evaluated the new formula, not before.
evalRemovingLast(w, baseCellId, formula, updateStore) ==
  Bind([w0 \in {[w EXCEPT !.undos = EmptyMap]} |->
  Bind([cellId \in {cellRefToCellId(baseCellId)} |->
  Bind([parsed \in {parseExpr(formula, cellId)} |->
    IF parsed.err # "" THEN Thrown(parsed.err, _undo(w0))
    ELSE
      Bind([ev \in {_evalCell(_updateCell(w0, cellId,
                                          [cellOrNew(w0, cellId) EXCEPT
                                             !.ast = parsed.ast]),
                              cellId, {})} |->
        IF ev.err # "" THEN Thrown(ev.err, _undo(ev.w))
        ELSE
          Bind([rem \in {IF /\ cellId \in DOMAIN w0.cells
                            /\ w0.cells[cellId].ast # NullAst
                         THEN _removeAsDependent(ev.w, cellId,
                                                 w0.cells[cellId].ast)
                         ELSE [err |-> "", w |-> ev.w]} |->
            IF rem.err # "" THEN Thrown(rem.err, _undo(rem.w))
            ELSE IF ~updateStore THEN Returned(rem.w, ev.vals)
            ELSE
              Bind([st \in {storeUpdateCell(rem.w, cellId, formula)} |->
                IF st.err # "" THEN Thrown(st.err, _undo(st.w))
                ELSE Returned(st.w, ev.vals)])])])])])])

\* eval(baseCellId, formula, updateStore)
eval(w, baseCellId, formula, updateStore) ==
  Bind([w0 \in {[w EXCEPT !.undos = EmptyMap]} |->
  Bind([cellId \in {cellRefToCellId(baseCellId)} |->
  Bind([parsed \in {parseExpr(formula, cellId)} |->
    \* catch (err) { this._undo(); throw err; }
    IF parsed.err # "" THEN Thrown(parsed.err, _undo(w0))
    ELSE
      Bind([w1 \in {_updateCell(w0, cellId, [cellOrNew(w0, cellId) EXCEPT
                                               !.ast = parsed.ast])} |->
      Bind([rem \in {IF /\ cellId \in DOMAIN w0.cells
                        /\ w0.cells[cellId].ast # NullAst
                     THEN _removeAsDependent(w1, cellId, w0.cells[cellId].ast)
                     ELSE [err |-> "", w |-> w1]} |->
        IF rem.err # "" THEN Thrown(rem.err, _undo(rem.w))
        ELSE
          Bind([ev \in {_evalCell(rem.w, cellId, {})} |->
            IF ev.err # "" THEN Thrown(ev.err, _undo(ev.w))
            ELSE IF ~updateStore THEN Returned(ev.w, ev.vals)
            ELSE
              Bind([st \in {storeUpdateCell(ev.w, cellId, formula)} |->
                IF st.err # "" THEN Thrown(st.err, _undo(st.w))
                ELSE Returned(st.w, ev.vals)])])])])])])])

\* The loop of delete: for (const dependent of dependents) ... from the i-th
\* member on.  dependents is the Set of the removed cell object, which nothing
\* changes any more.
RECURSIVE deleteDependents(_, _, _, _)
deleteDependents(w, dependents, i, results) ==
  IF i > Len(dependents) THEN Returned(w, results)
  \* this._cells[dependent] is undefined: reading .formula throws
  ELSE IF dependents[i] \notin DOMAIN w.cells THEN Thrown("TypeError", w)
  ELSE
    Bind([f \in {CellInfoFormula(w.cells[dependents[i]])} |->
      IF f.err # "" THEN Thrown(f.err, w)
      ELSE
        Bind([r \in {eval(w, dependents[i], f.str, TRUE)} |->
          IF r.err # "" THEN Thrown(r.err, r.w)
          ELSE deleteDependents(r.w, dependents, i + 1,
                                Assign(results, r.updates))])])

\* A delete that only drops the formula of a non-empty cell, keeping the
\* cell and its cached value, and removes a cell that is already empty.
deleteInTwoStages(w, cellId0) ==
  Bind([cellId \in {toLowerCase(cellId0)} |->
  Bind([w0 \in {[w EXCEPT !.undos = EmptyMap]} |->
  Bind([looped \in
          {IF cellId \in DOMAIN w0.cells
           THEN deleteDependents(
                  IF w0.cells[cellId].ast # NullAst
                  THEN _updateCell(w0, cellId,
                                   [w0.cells[cellId] EXCEPT !.ast = NullAst])
                  ELSE [_updateCell(w0, cellId, cellOrNew(w0, cellId)) EXCEPT
                          !.cells = [k \in DOMAIN @ \ {cellId} |-> @[k]]],
                  w0.cells[cellId].dependents, 1, EmptyMap)
           ELSE Returned(w0, EmptyMap)} |->
    IF looped.err # "" THEN looped
    ELSE
      Bind([st \in {storeDelete(looped.w, cellId)} |->
        IF st.err # "" THEN Thrown(st.err, st.w)
        ELSE Returned(st.w, looped.updates)])])])])

\* delete(cellId)
delete(w, cellId0) ==
  Bind([cellId \in {toLowerCase(cellId0)} |->
  Bind([w0 \in {[w EXCEPT !.undos = EmptyMap]} |->
  Bind([looped \in
          {IF cellId \in DOMAIN w0.cells
           THEN deleteDependents(
                  \* the update function: delete this._cells[cell.id]
                  [_updateCell(w0, cellId, cellOrNew(w0, cellId)) EXCEPT
                     !.cells = [k \in DOMAIN @ \ {cellId} |-> @[k]]],
                  w0.cells[cellId].dependents, 1, EmptyMap)
           ELSE Returned(w0, EmptyMap)} |->
    IF looped.err # "" THEN looped
    ELSE
      Bind([st \in {storeDelete(looped.w, cellId)} |->
        IF st.err # "" THEN Thrown(st.err, st.w)
        ELSE Returned(st.w, looped.updates)])])])])

\* A copy that prints the source formula for the source cell, i.e. carries
\* the text over without adjusting its relative references.
copyVerbatim(w, destCellId0, srcCellId0) ==
  Bind([destCellId \in {toLowerCase(destCellId0)} |->
  Bind([srcCellId \in {toLowerCase(srcCellId0)} |->
  Bind([w0 \in {[w EXCEPT !.undos = EmptyMap]} |->
  Bind([srcFormula \in {IF srcCellId \in DOMAIN w0.cells
                        THEN CellInfoFormula(w0.cells[srcCellId])
                        ELSE [err |-> "", str |-> <<>>]} |->
    IF srcFormula.err # "" THEN Thrown(srcFormula.err, w0)
    \* !srcCell?.formula
    ELSE IF srcFormula.str = <<>> THEN delete(w0, destCellId)
    ELSE
      Bind([destFormula \in {toString(w0.cells[srcCellId].ast, srcCellId)} |->
        IF destFormula.err # "" THEN Thrown(destFormula.err, w0)
        ELSE eval(w0, destCellId, destFormula.str, TRUE)])])])])])

\* A copy that leaves the destination alone when the source has no formula.
copyKeepingDest(w, destCellId0, srcCellId0) ==
  Bind([destCellId \in {toLowerCase(destCellId0)} |->
  Bind([srcCellId \in {toLowerCase(srcCellId0)} |->
  Bind([w0 \in {[w EXCEPT !.undos = EmptyMap]} |->
  Bind([srcFormula \in {IF srcCellId \in DOMAIN w0.cells
                        THEN CellInfoFormula(w0.cells[srcCellId])
                        ELSE [err |-> "", str |-> <<>>]} |->
    IF srcFormula.err # "" THEN Thrown(srcFormula.err, w0)
    ELSE IF srcFormula.str = <<>> THEN Returned(w0, EmptyMap)
    ELSE
      Bind([destFormula \in {toString(w0.cells[srcCellId].ast, destCellId)} |->
        IF destFormula.err # "" THEN Thrown(destFormula.err, w0)
        ELSE eval(w0, destCellId, destFormula.str, TRUE)])])])])])

\* copy(destCellId, srcCellId)
copy(w, destCellId0, srcCellId0) ==
  Bind([destCellId \in {toLowerCase(destCellId0)} |->
  Bind([srcCellId \in {toLowerCase(srcCellId0)} |->
  Bind([w0 \in {[w EXCEPT !.undos = EmptyMap]} |->
  Bind([srcFormula \in {IF srcCellId \in DOMAIN w0.cells
                        THEN CellInfoFormula(w0.cells[srcCellId])
                        ELSE [err |-> "", str |-> <<>>]} |->
    IF srcFormula.err # "" THEN Thrown(srcFormula.err, w0)
    \* !srcCell?.formula
    ELSE IF srcFormula.str = <<>> THEN delete(w0, destCellId)
    ELSE
      Bind([destFormula \in {toString(w0.cells[srcCellId].ast, destCellId)} |->
        IF destFormula.err # "" THEN Thrown(destFormula.err, w0)
        ELSE eval(w0, destCellId, destFormula.str, TRUE)])])])])])

\* A clear that wipes the cells before it asks the store.
clearCellsFirst(w) ==
  Bind([st \in {storeClear([w EXCEPT !.undos = EmptyMap, !.cells = EmptyMap])} |->
    IF st.err # "" THEN Thrown(st.err, st.w)
    ELSE Returned(st.w, EmptyMap)])

\* clear()
clear(w) ==
  Bind([st \in {storeClear(w)} |->
    IF st.err # "" THEN Thrown(st.err, st.w)
    ELSE Returned([st.w EXCEPT !.undos = EmptyMap, !.cells = EmptyMap],
                  EmptyMap)])

(***************************************************************************)
(* The read-only methods dump and query (util.mjs).  They change nothing,  *)
(* so they are operators on the world and consulted in every state.        *)
(***************************************************************************)
\* The UTF-16 code order of the characters of a cell id.
CharCode(c) == IF IsDigit(c) THEN IndexOf(DIGIT, c) ELSE 10 + IndexOf(LOWER, c)

\* s < t in the order of Array.prototype.sort() without a comparator.
RECURSIVE StrLess(_, _)
StrLess(s, t) ==
  IF t = <<>> THEN FALSE
  ELSE IF s = <<>> THEN TRUE
  ELSE IF s[1] = t[1] THEN StrLess(Tail(s), Tail(t))
  ELSE CharCode(s[1]) < CharCode(t[1])

\* ids.sort(), the array ids given as a sequence.
RECURSIVE sortIds(_)
sortIds(ids) ==
  IF ids = <<>> THEN <<>>
  ELSE Bind([rest \in {sortIds(Tail(ids))} |->
         SelectSeq(rest, LAMBDA x : StrLess(x, ids[1]))
           \o <<ids[1]>>
           \o SelectSeq(rest, LAMBDA x : ~StrLess(x, ids[1]))])

\* Object.keys(prereqs).filter(...).sort(), the keys given as a set.
RECURSIVE sortIdSet(_)
sortIdSet(S) ==
  IF S = {} THEN <<>>
  ELSE Bind([least \in {CHOOSE x \in S : \A y \in S \ {x} : StrLess(x, y)} |->
         <<least>> \o sortIdSet(S \ {least})])

\* A _makePrereqs that also counts cells without a formula as prerequisites.
makePrereqsOfAllCells(w) ==
  Bind([prereqCells \in {{id \in DOMAIN w.cells : w.cells[id].ast # NullAst}} |->
    [d \in prereqCells |->
       {id \in DOMAIN w.cells : d \in Range(w.cells[id].dependents)}]])

\* _makePrereqs(): for every non-empty cell, the non-empty cells that list
\* it among their dependents.
_makePrereqs(w) ==
  Bind([prereqCells \in {{id \in DOMAIN w.cells : w.cells[id].ast # NullAst}} |->
    [d \in prereqCells |->
       {id \in prereqCells : d \in Range(w.cells[id].dependents)}]])

\* dump(): the for loop over cellIds0 from its i-th element on, acc holding
\* sortedIds, doneIds and cellIds1.
RECURSIVE dumpFor(_, _, _, _, _)
dumpFor(w, prereqs, cellIds0, i, acc) ==
  IF i > Len(cellIds0) THEN acc
  ELSE
    Bind([doneIds \in {acc.doneIds \cup {cellIds0[i]}} |->
      dumpFor(w, prereqs, cellIds0, i + 1,
              [sortedIds |-> Append(acc.sortedIds, cellIds0[i]),
               doneIds   |-> doneIds,
               cellIds1  |->
                 acc.cellIds1
                 \o SelectSeq(w.cells[cellIds0[i]].dependents,
                              LAMBDA d : /\ d \in DOMAIN prereqs
                                         /\ prereqs[d] \subseteq doneIds)])])

\* dump(): the while loop.  A round that starts with no cell to emit while
\* cells are missing repeats itself for ever: the call does not return.
RECURSIVE dumpWhile(_, _, _, _, _)
dumpWhile(w, prereqs, cellIds0, sortedIds, doneIds) ==
  IF Len(sortedIds) >= Cardinality(DOMAIN prereqs)
  THEN [diverges |-> FALSE, sortedIds |-> sortedIds]
  ELSE IF cellIds0 = <<>>
  THEN [diverges |-> TRUE, sortedIds |-> sortedIds]
  ELSE
    Bind([acc \in {dumpFor(w, prereqs, cellIds0, 1,
                           [sortedIds |-> sortedIds, doneIds |-> doneIds,
                            cellIds1 |-> <<>>])} |->
      dumpWhile(w, prereqs, sortIds(acc.cellIds1), acc.sortedIds, acc.doneIds)])

\* dump(): the list of [cellId, formula] pairs, or no return at all.
dump(w) ==
  Bind([prereqs \in {_makePrereqs(w)} |->
  Bind([d \in {dumpWhile(w, prereqs,
                         sortIdSet({id \in DOMAIN prereqs : prereqs[id] = {}}),
                         <<>>, {})} |->
    [diverges |-> d.diverges,
     pairs    |-> [i \in 1..Len(d.sortedIds) |->
                     <<d.sortedIds[i],
                       CellInfoFormula(w.cells[d.sortedIds[i]]).str>>]]])])

\* A query that prints the formula as seen from a1 instead of from the cell.
queryFromA1(w, cellId0) ==
  Bind([cellId \in {toLowerCase(cellId0)} |->
    IF cellId \in DOMAIN w.cells /\ w.cells[cellId].ast # NullAst
    THEN Bind([f \in {toString(w.cells[cellId].ast, <<"a", "1">>)} |->
           [err |-> f.err, value |-> w.cells[cellId].value, formula |-> f.str]])
    ELSE [err |-> "", value |-> 0, formula |-> <<>>]])

\* query(cellId)
query(w, cellId0) ==
  Bind([cellId \in {toLowerCase(cellId0)} |->
    IF cellId \in DOMAIN w.cells
    THEN Bind([f \in {CellInfoFormula(w.cells[cellId])} |->
           [err |-> f.err, value |-> w.cells[cellId].value, formula |-> f.str]])
    ELSE [err |-> "", value |-> 0, formula |-> <<>>]])

(***************************************************************************)
(* The state machine: a client calls the public methods one after another. *)
(***************************************************************************)
\* The cells the client addresses.
A1 == <<"a", "1">>

B1 == <<"b", "1">>

A2 == <<"a", "2">>

CellIds == {A1, B1, A2}

\* The formulas the client types.
Formulas ==
  { <<"1">>,
    <<"b", "1">>,
    <<"$", "a", "1", "+", "1">>,
    <<"1", "+">>,
    <<"a", "1", "0", "0", "0", "0">> }

\* The client makes at most this many calls.
MaxOps == 4

\* The database call of an operation that fails is at most this one.
MaxFailIn == 2

\* Cached values stay within -MaxValue .. MaxValue.
MaxValue == 8

World(failIn) ==
  [cells |-> cells, undos |-> undos, store |-> store, failIn |-> failIn]

InBounds(r) ==
  /\ \A k \in DOMAIN r.w.cells :
       r.w.cells[k].value \in (0 - MaxValue)..MaxValue
  /\ \A k \in DOMAIN r.updates : r.updates[k] \in (0 - MaxValue)..MaxValue

\* The step of a call that ended as r.
Step(op, id, src, str, failIn, r) ==
  /\ nops < MaxOps
  /\ InBounds(r)
  /\ nops' = nops + 1
  /\ cells' = r.w.cells
  /\ undos' = r.w.undos
  /\ store' = r.w.store
  /\ last' = [op |-> op, id |-> id, src |-> src, formula |-> str,
              err |-> r.err, updates |-> r.updates,
              dbFailed |-> failIn > 0 /\ r.w.failIn = 0]

Init ==
  /\ cells = EmptyMap
  /\ undos = EmptyMap
  /\ store = EmptyMap
  /\ nops = 0
  /\ last = [op |-> "make", id |-> <<>>, src |-> <<>>, formula |-> <<>>,
             err |-> "", updates |-> EmptyMap, dbFailed |-> FALSE]

Eval ==
  \E id \in CellIds, str \in Formulas, failIn \in 0..1 :
    Step("eval", id, <<>>, str, failIn, eval(World(failIn), id, str, TRUE))

Delete ==
  \E id \in CellIds, failIn \in 0..MaxFailIn :
    Step("delete", id, <<>>, <<>>, failIn, delete(World(failIn), id))

Copy ==
  \E dest \in CellIds, src \in CellIds, failIn \in 0..1 :
    Step("copy", dest, src, <<>>, failIn, copy(World(failIn), dest, src))

Clear ==
  \E failIn \in 0..1 :
    Step("clear", <<>>, <<>>, <<>>, failIn, clear(World(failIn)))

Next == Eval \/ Delete \/ Copy \/ Clear

Spec == Init /\ [][Next]_vars

(***************************************************************************)
(* What the properties speak of: which cell a reference denotes, the       *)
(* refers-to relation of the formulas, and the value a formula denotes.    *)
(* These are stated from the data model, not through the printer.          *)
(***************************************************************************)
\* The (col, row) indices of the cell with this id.
Coord(id) ==
  [col |-> IndexOf(LOWER, id[1]) - 1, row |-> Number(Tail(id)) - 1]

\* The cell a reference stored in the formula of cell base denotes.
Target(ref, base) ==
  [col |-> IF ref.col.isAbs THEN ref.col.index
           ELSE Coord(base).col + ref.col.index,
   row |-> IF ref.row.isAbs THEN ref.row.index
           ELSE Coord(base).row + ref.row.index]

\* The references (CellRef values) occurring in an ast.
RECURSIVE RefsOf(_)
RefsOf(ast) ==
  CASE ast.type = "ref" -> {ast.value}
    [] ast.type = "app" -> UNION {RefsOf(ast.kids[i]) : i \in 1..Len(ast.kids)}
    [] OTHER -> {}

IsEmptyCell(cs, id) == id \notin DOMAIN cs \/ cs[id].ast = NullAst

\* The coordinates the formula of cell a refers to.
Targets(cs, a) ==
  IF a \in DOMAIN cs THEN {Target(ref, a) : ref \in RefsOf(cs[a].ast)} ELSE {}

\* Cell a's formula refers to cell b.
RefersTo(cs, a, b) == Coord(b) \in Targets(cs, a)

\* The cells of cs reachable from the cells in S along refers-to, S included.
RECURSIVE ReachableFrom(_, _)
ReachableFrom(cs, S) ==
  LET more == S \cup {b \in DOMAIN cs : \E a \in S : RefersTo(cs, a, b)}
  IN  IF more = S THEN S ELSE ReachableFrom(cs, more)

\* Cell a refers to cell b directly or transitively.
RefersToTrans(cs, a, b) ==
  b \in ReachableFrom(cs, {c \in DOMAIN cs : RefersTo(cs, a, c)})

\* The cached value of the cell at a coordinate, 0 when there is none.
ValueAt(cs, coord) ==
  IF \E b \in DOMAIN cs : Coord(b) = coord
  THEN cs[CHOOSE b \in DOMAIN cs : Coord(b) = coord].value
  ELSE 0

\* The value of an ast in cell base against the cached values of cs.
RECURSIVE Denotes(_, _, _)
Denotes(cs, base, ast) ==
  CASE ast.type = "num" -> ast.value
    [] ast.type = "ref" -> ValueAt(cs, Target(ast.value, base))
    [] ast.type = "app" ->
         Apply(ast.fn, [i \in 1..Len(ast.kids) |-> Denotes(cs, base, ast.kids[i])])
    [] OTHER -> 0

Succeeded(op) == last.op = op /\ last.err = ""

PublicOps == {"eval", "delete", "copy", "clear"}

AfterSuccess == last.op \in PublicOps /\ last.err = ""

(***************************************************************************)
(* Failure atomicity of eval                                               *)
(***************************************************************************)
\* C1: if eval(id, f) fails for any reason (syntax error, row out of
\* limits, circular reference, failure of the store update), the cell table
\* after the failure -- the set of cells and every cell's formula, value and
\* dependents -- is what it was immediately before the call.
EvalFailureLeavesCellsUnchanged ==
  [][(last'.op = "eval" /\ last'.err # "") => cells' = cells]_vars

\* An eval of a cell that did not exist got as far as the store, failed
\* there, and the cell it had created is gone again while others remain.
EvalFailedInStoreAndUndone ==
  /\ last.op = "eval"
  /\ last.err = "DB"
  /\ last.dbFailed
  /\ last.id \notin DOMAIN cells
  /\ cells # EmptyMap

(***************************************************************************)
(* Circular references                                                     *)
(***************************************************************************)
\* The cell table with ast installed as the formula of cell id.
Installed(cs, id, ast) ==
  (id :> [(IF id \in DOMAIN cs THEN cs[id] ELSE CellInfo(id))
            EXCEPT !.ast = ast]) @@ cs

\* C2: eval(id, f) never succeeds when installing f would make cell id refer
\* to itself, directly or transitively through the formulas in the sheet:
\* in every such case it throws CIRCULAR_REF.
EvalOfCycleThrowsCircularRef ==
  [][(last'.op = "eval") =>
       LET id == last'.id
           p  == parseExpr(last'.formula, id)
       IN  (p.err = "" /\ RefersToTrans(Installed(cells, id, p.ast), id, id))
             => last'.err = "CIRCULAR_REF"]_vars

(***************************************************************************)
(* Cached values and the returned map of eval                              *)
(***************************************************************************)
\* C3: after every successful public operation every non-empty cell's
\* cached value equals the value of its formula against the current cached
\* values of the cells it references (absent or empty cells count as 0).
ValuesAgreeWithFormulas ==
  AfterSuccess =>
    \A c \in DOMAIN cells :
      cells[c].ast # NullAst =>
        cells[c].value = Denotes(cells, c, cells[c].ast)

\* C4: a successful eval(id, f) returns a map whose key set is exactly id
\* together with every cell whose formula directly or transitively refers to
\* id, each key mapped to that cell's cached value in the resulting state.
EvalReturnsExactlyTheDependents ==
  Succeeded("eval") =>
    /\ DOMAIN last.updates =
         {last.id} \cup {c \in DOMAIN cells : RefersToTrans(cells, c, last.id)}
    /\ \A k \in DOMAIN last.updates :
         k \in DOMAIN cells /\ last.updates[k] = cells[k].value

(***************************************************************************)
(* The dependents sets against the formulas                                *)
(***************************************************************************)
\* C5: after every successful public operation, if the formula of cell A
\* contains a reference that resolves (relative to A) to B then cell B
\* exists in the table and A is a member of B's dependents.
ReferrersAreDependents ==
  AfterSuccess =>
    \A a \in DOMAIN cells :
      \A t \in Targets(cells, a) :
        \E b \in DOMAIN cells :
          Coord(b) = t /\ a \in Range(cells[b].dependents)

\* C6: after every successful public operation no dependents set holds a
\* stale id: every member A of B's dependents is an existing cell whose
\* current formula refers to B.
DependentsAreReferrers ==
  AfterSuccess =>
    \A b \in DOMAIN cells :
      \A a \in Range(cells[b].dependents) :
        a \in DOMAIN cells /\ RefersTo(cells, a, b)

\* C7: in every reachable state, after successful and failed operations
\* alike, the refers-to relation of the current formulas has no cycle.
NoCycleAmongFormulas ==
  \A c \in DOMAIN cells : ~RefersToTrans(cells, c, c)

(***************************************************************************)
(* delete                                                                  *)
(***************************************************************************)
\* C8: delete(id) on a non-empty cell returns a map that contains id itself
\* mapped to 0 together with every cell that directly or transitively
\* depends on id mapped to its recomputed value, and the dependents keep
\* their formulas.
DeleteReturnsCellAndDependents ==
  [][(last'.op = "delete" /\ last'.err = "" /\ ~IsEmptyCell(cells, last'.id)) =>
       LET id   == last'.id
           deps == {c \in DOMAIN cells : RefersToTrans(cells, c, id)}
       IN  /\ ({id} \cup deps) \subseteq DOMAIN last'.updates
           /\ last'.updates[id] = 0
           /\ \A c \in deps :
                /\ c \in DOMAIN cells'
                /\ last'.updates[c] = cells'[c].value
                /\ cells'[c].ast = cells[c].ast]_vars

\* C9: if delete(id) fails, because the store's delete fails or because
\* re-evaluating one of id's dependents fails, the cell table afterwards is
\* identical to its state immediately before the call.
DeleteFailureLeavesCellsUnchanged ==
  [][(last'.op = "delete" /\ last'.err # "") => cells' = cells]_vars

(***************************************************************************)
(* copy                                                                    *)
(***************************************************************************)
\* C10: a successful copy(dest, src) of a non-empty src installs in dest a
\* formula of the same structure in which every absolute axis keeps its
\* coordinate and every relative axis keeps its offset (the ast stores
\* exactly these, so the two asts are equal), and the resulting cell table
\* and returned map are those of eval(dest, toString(src's ast, dest)).
CopyIsPrintThenEval ==
  [][(last'.op = "copy" /\ last'.err = "" /\ ~IsEmptyCell(cells, last'.src)) =>
       LET f == toString(cells[last'.src].ast, last'.id)
           r == eval(World(0), last'.id, f.str, TRUE)
       IN  /\ f.err = "" /\ r.err = ""
           /\ cells'[last'.id].ast = cells[last'.src].ast
           /\ \A ref \in RefsOf(cells'[last'.id].ast) :
                \E sref \in RefsOf(cells[last'.src].ast) :
                  /\ sref.col.isAbs = ref.col.isAbs
                  /\ sref.row.isAbs = ref.row.isAbs
                  /\ Target(ref, last'.id).col =
                       IF sref.col.isAbs THEN Target(sref, last'.src).col
                       ELSE Target(sref, last'.src).col
                              + Coord(last'.id).col - Coord(last'.src).col
                  /\ Target(ref, last'.id).row =
                       IF sref.row.isAbs THEN Target(sref, last'.src).row
                       ELSE Target(sref, last'.src).row
                              + Coord(last'.id).row - Coord(last'.src).row
           /\ cells' = r.w.cells
           /\ last'.updates = r.updates]_vars

\* A formula with a relative reference was copied to a cell in another row
\* or column, where it refers to a cell other than the one the source
\* refers to.
CopiedRelativeReference ==
  /\ last.op = "copy"
  /\ last.err = ""
  /\ last.id # last.src
  /\ ~IsEmptyCell(cells, last.src)
  /\ ~IsEmptyCell(cells, last.id)
  /\ \E ref \in RefsOf(cells[last.id].ast) :
       /\ ~ref.col.isAbs \/ ~ref.row.isAbs
       /\ Target(ref, last.id) # Target(ref, last.src)

(***************************************************************************)
(* Absolute and relative axes on copy: a client that types numbers and a   *)
(* formula with a column-absolute reference into the first row and copies  *)
(* cells into the second row.                                              *)
(***************************************************************************)
CellC1 == <<"c", "1">>

CellC2 == <<"c", "2">>

\* The cells this client evaluates.
ScenarioCellIds == {A1, B1, CellC1}

\* The formulas this client types.
ScenarioFormulas ==
  { <<"1">>,
    <<"2">>,
    <<"$", "a", "1", "+", "b", "1">> }

ScenarioEval ==
  \E id \in ScenarioCellIds, str \in ScenarioFormulas :
    Step("eval", id, <<>>, str, 0, eval(World(0), id, str, TRUE))

ScenarioCopy ==
  \E dest \in {CellC1, CellC2}, src \in {B1, CellC1} :
    Step("copy", dest, src, <<>>, 0, copy(World(0), dest, src))

ScenarioNext == ScenarioEval \/ ScenarioCopy

SpecScenario == Init /\ [][ScenarioNext]_vars

\* The world after eval(a1,'1'), eval(b1,'2'), eval(c1,'$a1+b1') on a new
\* spreadsheet.
AfterScenarioEvals ==
  eval(eval(eval([cells |-> EmptyMap, undos |-> EmptyMap,
                  store |-> EmptyMap, failIn |-> 0],
                 A1, <<"1">>, TRUE).w,
            B1, <<"2">>, TRUE).w,
       CellC1, <<"$", "a", "1", "+", "b", "1">>, TRUE).w

\* copy(c2, c1) is called in the state the three evals produce.
ScenarioCopyStep ==
  /\ cells = AfterScenarioEvals.cells
  /\ store = AfterScenarioEvals.store
  /\ last'.op = "copy"
  /\ last'.id = CellC2
  /\ last'.src = CellC1

\* C11: after eval(a1,'1'), eval(b1,'2'), eval(c1,'$a1+b1'), the call
\* copy(c2, c1) gives c2 the formula '$a2+b2' (in '$a1' only the column is
\* absolute, the row 1 is relative to c1 and becomes 2 in c2), so that c2
\* evaluates to 0 + 0 = 0 and the call returns {c2: 0}, with c1 unchanged.
ScenarioCopyKeepsColumnOnly ==
  [][ScenarioCopyStep =>
       /\ last'.err = ""
       /\ CellC2 \in DOMAIN cells'
       /\ CellInfoFormula(cells'[CellC2]).str
            = <<"$", "a", "2", "+", "b", "2">>
       /\ cells'[CellC2].ast
            = parseExpr(<<"$", "a", "2", "+", "b", "2">>, CellC2).ast
       /\ cells'[CellC2].value = 0
       /\ last'.updates = [k \in {CellC2} |-> 0]
       /\ cells'[CellC1] = cells[CellC1]]_vars

\* C11 as the specification states it: c2 gets the formula '$a1+b2', the
\* value 1 + 0 = 1, and the call returns {c2: 1}, with c1 unchanged.
ScenarioCopyKeepsA1 ==
  [][ScenarioCopyStep =>
       /\ last'.err = ""
       /\ CellC2 \in DOMAIN cells'
       /\ CellInfoFormula(cells'[CellC2]).str
            = <<"$", "a", "1", "+", "b", "2">>
       /\ cells'[CellC2].value = 1
       /\ last'.updates = [k \in {CellC2} |-> 1]
       /\ cells'[CellC1] = cells[CellC1]]_vars

\* copy(c2, c1) has just been made in the state the three evals produce:
\* c1 is as they left it and c2 holds the copied formula.
ScenarioCopyDone ==
  /\ last.op = "copy"
  /\ last.id = CellC2
  /\ last.src = CellC1
  /\ last.err = ""
  /\ nops = 4
  /\ \A k \in DOMAIN AfterScenarioEvals.cells :
       k \in DOMAIN cells /\ cells[k] = AfterScenarioEvals.cells[k]
  /\ ~IsEmptyCell(cells, CellC2)

(***************************************************************************)
(* Copying an empty cell                                                   *)
(***************************************************************************)
\* C12: copy(dest, src) where src is unknown or has no formula does what
\* delete(dest) does from the same state with the same database behaviour:
\* the same resulting cell table, the same store contents and store failure,
\* the same outcome and the same returned map.
CopyOfEmptyIsDelete ==
  [][(last'.op = "copy" /\ IsEmptyCell(cells, last'.src)) =>
       LET failIn == IF last'.dbFailed THEN 1 ELSE 0
           r      == delete(World(failIn), last'.id)
       IN  /\ last'.dbFailed = (failIn > 0 /\ r.w.failIn = 0)
           /\ cells' = r.w.cells
           /\ store' = r.w.store
           /\ last'.err = r.err
           /\ last'.updates = r.updates]_vars

\* An empty cell was copied over a cell that others depend on: the
\* destination is gone and its dependents were recomputed.
CopiedEmptyOverDependedCell ==
  /\ last.op = "copy"
  /\ last.err = ""
  /\ last.id # last.src
  /\ IsEmptyCell(cells, last.src)
  /\ IsEmptyCell(cells, last.id)
  /\ last.id \notin DOMAIN store
  /\ last.updates # EmptyMap

(***************************************************************************)
(* Copying towards the edges of the sheet: a client that works in the      *)
(* corners a1/b2 and y9998/z9999.                                          *)
(***************************************************************************)
CellB2 == <<"b", "2">>

CellY9998 == <<"y", "9", "9", "9", "8">>

CellZ9999 == <<"z", "9", "9", "9", "9">>

\* The cells this client evaluates and copies from.
EdgeSrcIds == {CellB2, CellY9998}

\* The cells this client copies to.
EdgeDestIds == {A1, CellZ9999}

\* The formulas this client types: references to the left, above, to the
\* right and below of the two source cells.
EdgeFormulas ==
  { <<"a", "2">>,
    <<"b", "1">>,
    <<"z", "9", "9", "9", "8">>,
    <<"y", "9", "9", "9", "9">> }

EdgeEval ==
  \E id \in EdgeSrcIds, str \in EdgeFormulas :
    Step("eval", id, <<>>, str, 0, eval(World(0), id, str, TRUE))

EdgeCopy ==
  \E dest \in EdgeDestIds, src \in EdgeSrcIds, failIn \in 0..1 :
    Step("copy", dest, src, <<>>, failIn, copy(World(failIn), dest, src))

EdgeNext == EdgeEval \/ EdgeCopy

SpecEdge == Init /\ [][EdgeNext]_vars

\* A relative axis of ref, rebased from the cell it lives in to dest, is
\* outside the sheet.
ColumnFallsOutside(ref, dest) ==
  /\ ~ref.col.isAbs
  /\ Target(ref, dest).col \notin 0..(MAX_N_COLS - 1)

RowFallsOutside(ref, dest) ==
  /\ ~ref.row.isAbs
  /\ Target(ref, dest).row \notin 0..(MAX_N_ROWS - 1)

FallsOutside(cs, src, dest) ==
  /\ ~IsEmptyCell(cs, src)
  /\ \E ref \in RefsOf(cs[src].ast) :
       ColumnFallsOutside(ref, dest) \/ RowFallsOutside(ref, dest)

\* C13: copy(dest, src) fails with SYNTAX whenever some relative reference
\* of src's formula, rebased at dest, falls outside the sheet (column or row
\* index below 0 or at or above the maximum); then no cell is created or
\* changed and the store is neither called nor changed.
CopyOutsideSheetIsSyntaxError ==
  [][(last'.op = "copy" /\ FallsOutside(cells, last'.src, last'.id)) =>
       /\ last'.err = "SYNTAX"
       /\ cells' = cells
       /\ store' = store
       /\ ~last'.dbFailed]_vars

\* A copy towards the last row and column has just failed: the source's
\* reference, rebased at the destination, lies beyond the last column or
\* below the last row.
CopyBeyondLastRowOrColumnFailed ==
  /\ last.op = "copy"
  /\ last.err = "SYNTAX"
  /\ last.id = CellZ9999
  /\ ~IsEmptyCell(cells, last.src)
  /\ \E ref \in RefsOf(cells[last.src].ast) :
       \/ ~ref.col.isAbs /\ Target(ref, last.id).col >= MAX_N_COLS
       \/ ~ref.row.isAbs /\ Target(ref, last.id).row >= MAX_N_ROWS

(***************************************************************************)
(* The order of dump                                                       *)
(***************************************************************************)
\* The depth of a cell by its formula: 0 when the formula refers to no
\* non-empty cell, else one more than the greatest depth of the non-empty
\* cells it refers to.  fuel bounds the descent by the number of cells,
\* which the depth of an acyclic sheet never reaches.
RECURSIVE FormulaDepth(_, _, _)
FormulaDepth(cs, id, fuel) ==
  LET refd == {b \in DOMAIN cs : ~IsEmptyCell(cs, b) /\ RefersTo(cs, id, b)}
  IN  IF refd = {} \/ fuel = 0 THEN 0
      ELSE LET ds == {FormulaDepth(cs, b, fuel - 1) : b \in refd}
           IN  1 + CHOOSE m \in ds : \A n \in ds : n <= m

DepthOf(id) == FormulaDepth(cells, id, Cardinality(DOMAIN cells))

FormulasAcyclic == \A a \in DOMAIN cells : ~RefersToTrans(cells, a, a)

\* The ids dump() lists, in its order.
DumpedIds ==
  LET d == dump(World(0)) IN [i \in 1..Len(d.pairs) |-> d.pairs[i][1]]

\* C14: in every reachable state dump() returns, and lists each non-empty
\* cell exactly once and no empty cell, by non-decreasing depth and, among
\* cells of equal depth, by ascending id.  (Where the formulas have a cycle
\* no depth is defined and only the first part is required.)
DumpIsTopologicalThenLexical ==
  /\ ~dump(World(0)).diverges
  /\ Len(DumpedIds) = Cardinality({id \in DOMAIN cells : ~IsEmptyCell(cells, id)})
  /\ Range(DumpedIds) = {id \in DOMAIN cells : ~IsEmptyCell(cells, id)}
  /\ \A i \in 1..Len(DumpedIds) :
       dump(World(0)).pairs[i][2] = CellInfoFormula(cells[DumpedIds[i]]).str
  /\ FormulasAcyclic =>
       \A i \in 1..(Len(DumpedIds) - 1) :
         \/ DepthOf(DumpedIds[i]) < DepthOf(DumpedIds[i + 1])
         \/ /\ DepthOf(DumpedIds[i]) = DepthOf(DumpedIds[i + 1])
            /\ StrLess(DumpedIds[i], DumpedIds[i + 1])

(***************************************************************************)
(* query                                                                   *)
(***************************************************************************)
\* The ids a client queries: the cells in use, in either case.
QueryIds == CellIds \cup {<<"A", "2">>, <<"B", "1">>}

\* C15: in every reachable state query(id) returns value 0 and formula ''
\* for a cell that is unknown or empty, and otherwise the cell's cached
\* value and its formula printed relative to the cell itself, i.e. a text
\* that parsed at that cell gives back the cell's ast.
QueryReturnsValueAndOwnFormula ==
  \A id \in QueryIds :
    LET q == query(World(0), id)
        c == toLowerCase(id)
    IN  /\ q.err = ""
        /\ IsEmptyCell(cells, c) => q.value = 0 /\ q.formula = <<>>
        /\ ~IsEmptyCell(cells, c) =>
             /\ q.value = cells[c].value
             /\ q.formula = toString(cells[c].ast, c).str
             /\ q.formula # <<>>
             /\ parseExpr(q.formula, c).err = ""
             /\ parseExpr(q.formula, c).ast = cells[c].ast

\* The sheet holds an empty cell that others depend on and, outside a1, a
\* cell with a non-zero value whose formula has a relative reference; both
\* are queried.
QueriedEmptyAndRelativeCells ==
  /\ \E id \in DOMAIN cells :
       /\ cells[id].ast = NullAst
       /\ cells[id].dependents # <<>>
       /\ query(World(0), id).formula = <<>>
  /\ \E id \in DOMAIN cells \ {A1} :
       /\ cells[id].ast # NullAst
       /\ \E ref \in RefsOf(cells[id].ast) : ~ref.col.isAbs /\ ~ref.row.isAbs
       /\ query(World(0), id).value # 0
       /\ query(World(0), id).formula # <<>>

(***************************************************************************)
(* The codes of the errors                                                 *)
(***************************************************************************)
DocumentedCodes == {"SYNTAX", "CIRCULAR_REF", "LIMITS", "DB"}

\* C16: every failure of eval, delete and copy, from any reachable state,
\* carries one of the codes SYNTAX, CIRCULAR_REF, LIMITS or DB; no other
\* error escapes a public operation.
FailuresCarryDocumentedCodes ==
  (last.op \in {"eval", "delete", "copy"} /\ last.err # "") =>
    last.err \in DocumentedCodes

(***************************************************************************)
(* The store on its own: a client of DBSSStore calls its operations, the   *)
(* database failing or not.                                                *)
(***************************************************************************)
\* The formulas this client stores.
StoreFormulas == { <<"1">>, <<"b", "1">> }

\* The outcome of a store operation as the outcome of a call; what
\* readFormulas returns is the store itself.
StoreResult(st) == [err |-> st.err, w |-> st.w, updates |-> EmptyMap]

StoreUpdateCell ==
  \E id \in CellIds, str \in StoreFormulas, failIn \in 0..1 :
    Step("updateCell", id, <<>>, str, failIn,
         StoreResult(storeUpdateCell(World(failIn), id, str)))

StoreDelete ==
  \E id \in CellIds, failIn \in 0..1 :
    Step("delete", id, <<>>, <<>>, failIn,
         StoreResult(storeDelete(World(failIn), id)))

StoreClear ==
  \E failIn \in 0..1 :
    Step("clear", <<>>, <<>>, <<>>, failIn,
         StoreResult(storeClear(World(failIn))))

StoreReadFormulas ==
  \E failIn \in 0..1 :
    Step("readFormulas", <<>>, <<>>, <<>>, failIn,
         StoreResult(storeReadFormulas(World(failIn))))

StoreNext == StoreUpdateCell \/ StoreDelete \/ StoreClear \/ StoreReadFormulas

SpecStore == Init /\ [][StoreNext]_vars

\* C17: whenever the database call of a store operation (updateCell,
\* delete, clear, readFormulas) fails, the store operation fails with the
\* code DB.
StoreFailuresAreDbErrors ==
  last.dbFailed => last.err = "DB"

(***************************************************************************)
(* eval as the event loop runs it: the call runs up to its await of the    *)
(* store's updateCell, is suspended there while other callbacks run, and   *)
(* is resumed when the database call has succeeded or failed.  The other   *)
(* callbacks here are queries.  last also records where the eval stands    *)
(* (phase), the cell table it started from (pre) and the latest query      *)
(* answered since it started (observed).                                   *)
(***************************************************************************)
NoQuery == <<>>

AsyncInit ==
  /\ cells = EmptyMap
  /\ undos = EmptyMap
  /\ store = EmptyMap
  /\ nops = 0
  /\ last = [op |-> "make", id |-> <<>>, src |-> <<>>, formula |-> <<>>,
             err |-> "", updates |-> EmptyMap, dbFailed |-> FALSE,
             phase |-> "done", pre |-> EmptyMap, observed |-> NoQuery,
             second |-> NoQuery]

\* The step of an eval call that ran as r up to its await.
EvalBegun(id, str, r) ==
  /\ last.phase = "done"
  /\ nops < MaxOps
  /\ InBounds(r)
  /\ nops' = nops + 1
  /\ cells' = r.w.cells
  /\ undos' = r.w.undos
  /\ store' = store
  /\ last' = [op |-> "eval", id |-> id, src |-> <<>>, formula |-> str,
              err |-> r.err, updates |-> r.updates, dbFailed |-> FALSE,
              phase |-> IF r.err = "" THEN "suspended" ELSE "done",
              pre |-> cells, observed |-> NoQuery, second |-> NoQuery]

\* eval(baseCellId, formula) from its call to its await (util.mjs:100-110),
\* or to its end when it throws before.
EvalBegin ==
  \E id \in CellIds, str \in Formulas :
    EvalBegun(id, str, eval(World(0), id, str, FALSE))

\* The outcome of the suspended eval once the store's updateCell has settled
\* (util.mjs:109-116).
evalResume(w, cellId, formula, updates) ==
  Bind([st \in {storeUpdateCell(w, cellId, formula)} |->
    IF st.err # "" THEN Thrown(st.err, _undo(st.w))
    ELSE Returned(st.w, updates)])

\* The step of a suspended eval that ended as r.
EvalResumed(failIn, r) ==
  /\ last.phase = "suspended"
  /\ cells' = r.w.cells
  /\ undos' = r.w.undos
  /\ store' = r.w.store
  /\ last' = [last EXCEPT !.err = r.err, !.dbFailed = failIn > 0,
                          !.phase = "done"]
  /\ UNCHANGED nops

EvalResume ==
  \E failIn \in 0..1 :
    EvalResumed(failIn, evalResume(World(failIn), cellRefToCellId(last.id),
                                   last.formula, last.updates))

\* query(cellId), called by another callback at any time.
Query ==
  \E id \in CellIds :
    /\ last' = [last EXCEPT
                  !.observed = [id |-> id,
                                during |-> last.phase,
                                value |-> query(World(0), id).value,
                                formula |-> query(World(0), id).formula]]
    /\ UNCHANGED <<cells, undos, store, nops>>

\* The step of a second eval call, on another cell, that ran as r from its
\* call to its end while the first eval was suspended in its store call.
EvalDuringRan(id, str, r) ==
  /\ last.phase = "suspended"
  /\ last.second = NoQuery
  /\ id # cellRefToCellId(last.id)
  /\ nops < MaxOps
  /\ InBounds(r)
  /\ nops' = nops + 1
  /\ cells' = r.w.cells
  /\ undos' = r.w.undos
  /\ store' = r.w.store
  /\ last' = [last EXCEPT !.second = [id |-> id, formula |-> str,
                                      err |-> r.err, post |-> r.w.cells]]

\* eval(baseCellId, formula) called by another callback (the onBlur or
\* submit of another input) between the await of the suspended eval and its
\* resumption.
EvalDuring ==
  \E id \in CellIds, str \in Formulas :
    EvalDuringRan(id, str, eval(World(0), id, str, TRUE))

AsyncNext == EvalBegin \/ EvalResume \/ Query \/ EvalDuring

SpecAsync == AsyncInit /\ [][AsyncNext]_vars

\* The answer of query(id) on the cell table cs.
QueryOn(cs, id) ==
  query([cells |-> cs, undos |-> EmptyMap, store |-> EmptyMap, failIn |-> 0],
        id)

\* C18: a query answered while an eval was suspended in its store call
\* returned what the cell table held before the eval when the eval ends up
\* failing, and what the table holds after it when the eval succeeds; so no
\* query returns a value or formula written by an eval whose store update
\* then fails and is rolled back.
QueriesSeePreOrPostState ==
  (/\ last.op = "eval"
   /\ last.phase = "done"
   /\ last.observed # NoQuery
   /\ last.observed.during = "suspended") =>
     LET q == QueryOn(IF last.err # "" THEN last.pre ELSE cells,
                      last.observed.id)
     IN  /\ last.observed.value = q.value
         /\ last.observed.formula = q.formula

(***************************************************************************)
(* Printing and parsing on their own: an ast is printed for a base cell    *)
(* and the text is parsed for the same cell.  last holds the ast, the base *)
(* cell, the text and the parsed ast.                                      *)
(***************************************************************************)
\* The asts have at most this many nodes.
MaxAstSize == 5

\* The leaves: a number of two digits, a reference one column to the left
\* and one row up, a reference to column c (absolute) one row down.
AstLeaves ==
  { NumAst(12),
    RefAst([col |-> [isAbs |-> FALSE, index |-> 0 - 1],
            row |-> [isAbs |-> FALSE, index |-> 0 - 1]]),
    RefAst([col |-> [isAbs |-> TRUE, index |-> 2],
            row |-> [isAbs |-> FALSE, index |-> 1]]) }

\* The asts of exactly n nodes and the sequences of asts of n nodes in all,
\* as the parser builds them: '-' over one operand, '+', '-', '*', '/' over
\* two, min and max over one or more.
RECURSIVE AstsOfSize(_), KidsOfSize(_)
AstsOfSize(n) ==
  IF n = 1 THEN AstLeaves
  ELSE {AppAst(MINUS, kids) : kids \in {k \in KidsOfSize(n - 1) : Len(k) = 1}}
       \cup {AppAst(fn, kids) : fn \in {PLUS, MINUS, TIMES, DIVIDE},
                               kids \in {k \in KidsOfSize(n - 1) : Len(k) = 2}}
       \cup {AppAst(fn, kids) : fn \in {MAX, MIN}, kids \in KidsOfSize(n - 1)}

KidsOfSize(n) ==
  IF n = 0 THEN {<<>>}
  ELSE UNION {{<<a>> \o rest : a \in AstsOfSize(i), rest \in KidsOfSize(n - i)} :
                i \in 1..n}

\* The base cells.
AstBases == {A1, CellB2}

RoundTripInit ==
  /\ cells = EmptyMap
  /\ undos = EmptyMap
  /\ store = EmptyMap
  /\ nops = 0
  /\ \E n \in 1..MaxAstSize :
       \E ast \in AstsOfSize(n), base \in AstBases :
         last = [op |-> "ast", ast |-> ast, base |-> base, err |-> "",
                 str |-> <<>>, parsed |-> NullAst]

\* ast.toString(base)
AstPrinted(r) ==
  /\ last.op = "ast"
  /\ last' = [last EXCEPT !.op = "printed", !.err = r.err, !.str = r.str]
  /\ UNCHANGED <<cells, undos, store, nops>>

AstPrint == AstPrinted(toString(last.ast, last.base))

\* parse(str, base)
AstParsed(r) ==
  /\ last.op = "printed"
  /\ last.err = ""
  /\ last' = [last EXCEPT !.op = "parsed", !.err = r.err, !.parsed = r.ast]
  /\ UNCHANGED <<cells, undos, store, nops>>

AstParse == AstParsed(parseExpr(last.str, last.base))

RoundTripNext == AstPrint \/ AstParse

SpecRoundTrip == RoundTripInit /\ [][RoundTripNext]_vars

\* Every reference of ast denotes a cell of the sheet when ast lives in base.
RefsInRange(ast, base) ==
  \A ref \in RefsOf(ast) :
    /\ Target(ref, base).col \in 0..(MAX_N_COLS - 1)
    /\ Target(ref, base).row \in 0..(MAX_N_ROWS - 1)

\* C19: for every well-formed ast A (numbers, references, unary minus,
\* binary + - * /, min and max applications, of bounded size) and base cell
\* c under which all references of A are in range, A prints without error
\* and parse(astToString(A, c), c) is structurally equal to A.
PrintThenParseGivesBackAst ==
  (last.op # "ast" /\ RefsInRange(last.ast, last.base)) =>
    /\ last.err = ""
    /\ last.op = "parsed" => last.parsed = last.ast

\* A subtraction whose right operand is a sum or difference and which holds
\* a relative reference and a unary minus was printed, with parentheses, and
\* parsed back.
ParenthesizedDifferenceParsedBack ==
  /\ last.op = "parsed"
  /\ last.err = ""
  /\ last.ast.type = "app"
  /\ last.ast.fn = MINUS
  /\ Len(last.ast.kids) = 2
  /\ last.ast.kids[2].type = "app"
  /\ last.ast.kids[2].fn \in {PLUS, MINUS}
  /\ Len(last.ast.kids[2].kids) = 2
  /\ "(" \in Range(last.str)
  /\ \E ref \in RefsOf(last.ast) : ~ref.col.isAbs
  /\ last.parsed = last.ast

(***************************************************************************)
(* Spreadsheet.make: a new spreadsheet reads the stored formulas and        *)
(* evaluates them one by one, in the order the store returns them, which    *)
(* is any order.  last holds the ids still to be evaluated (pending).       *)
(***************************************************************************)
\* The formulas found in the store.
ReplayFormulas ==
  { <<"1">>,
    <<"b", "1">>,
    <<"a", "2">>,
    <<"$", "a", "1", "+", "1">> }

ReplayInit ==
  /\ cells = EmptyMap
  /\ undos = EmptyMap
  /\ nops = 0
  /\ \E ids \in SUBSET CellIds : store \in [ids -> ReplayFormulas]
  /\ last = [op |-> "new", id |-> <<>>, err |-> "", updates |-> EmptyMap,
             pending |-> {}]

\* await store.readFormulas(name)
ReplayRead ==
  \E failIn \in 0..1 :
    /\ last.op = "new"
    /\ last' = [last EXCEPT
                  !.op = "read",
                  !.err = storeReadFormulas(World(failIn)).err,
                  !.pending = DOMAIN storeReadFormulas(World(failIn)).formulas]
    /\ UNCHANGED <<cells, undos, store, nops>>

\* The step of the loop of make whose eval ended as r.
Replayed(id, r) ==
  /\ last.op \in {"read", "replay"}
  /\ last.err = ""
  /\ id \in last.pending
  /\ cells' = r.w.cells
  /\ undos' = r.w.undos
  /\ store' = r.w.store
  /\ nops' = nops + 1
  /\ last' = [op |-> "replay", id |-> id, err |-> r.err,
              updates |-> r.updates, pending |-> last.pending \ {id}]

\* await ss.eval(cellId, formula, false)
ReplayEval ==
  \E id \in CellIds :
    Replayed(id, eval(World(0), id, store[id], FALSE))

ReplayNext == ReplayRead \/ ReplayEval

SpecReplay == ReplayInit /\ [][ReplayNext]_vars

\* The loop of make over the ids in a given order.
RECURSIVE replay(_, _, _)
replay(w, formulas, ids) ==
  IF ids = <<>> THEN [err |-> "", w |-> w]
  ELSE Bind([r \in {eval(w, ids[1], formulas[ids[1]], FALSE)} |->
         IF r.err # "" THEN [err |-> r.err, w |-> r.w]
         ELSE replay(r.w, formulas, Tail(ids))])

\* The stored formulas as a cell table of asts only, for the refers-to
\* relation.
StoredAsts == [id \in DOMAIN store |-> [ast |-> parseExpr(store[id], id).ast]]

\* The stored formulas are well formed and have no reference cycle.
StoredFormulasAcyclic ==
  /\ \A id \in DOMAIN store : parseExpr(store[id], id).err = ""
  /\ \A id \in DOMAIN store : ~RefersToTrans(StoredAsts, id, id)

\* The replay has ended: every formula was evaluated or an eval has failed.
ReplayEnded ==
  \/ last.op = "replay" /\ (last.pending = {} \/ last.err # "")
  \/ last.op = "read" /\ last.err = "" /\ last.pending = {}

\* C20: starting from an empty engine, evaluating a set of (cellId, formula)
\* pairs with distinct ids and no reference cycle succeeds in whatever order
\* the pairs come, and ends with the same formula and cached value for
\* every cell as the evaluation in ascending order of the ids, the formula
\* of each stored cell being the stored one.
ReplayIsOrderIndependent ==
  (ReplayEnded /\ StoredFormulasAcyclic) =>
    LET inOrder == replay([cells |-> EmptyMap, undos |-> EmptyMap,
                           store |-> store, failIn |-> 0],
                          store, sortIdSet(DOMAIN store))
    IN  /\ last.err = ""
        /\ last.pending = {}
        /\ inOrder.err = ""
        /\ \A id \in CellIds :
             /\ QueryOn(cells, id).value = QueryOn(inOrder.w.cells, id).value
             /\ QueryOn(cells, id).formula = QueryOn(inOrder.w.cells, id).formula
        /\ \A id \in DOMAIN store :
             /\ id \in DOMAIN cells
             /\ cells[id].ast = parseExpr(store[id], id).ast

\* Three formulas that form a chain were replayed with the referring cells
\* first: a1 = b1 was evaluated before b1 = a2, and that before a2 = 1, the
\* last eval bringing the value to all three.
ChainReplayedBackwards ==
  /\ last.op = "replay"
  /\ last.err = ""
  /\ last.pending = {}
  /\ last.id = A2
  /\ DOMAIN store = CellIds
  /\ store[A1] = <<"b", "1">>
  /\ store[B1] = <<"a", "2">>
  /\ store[A2] = <<"1">>
  /\ cells[A1].value = 1
  /\ last.updates = [id \in CellIds |-> 1]

(***************************************************************************)
(* Laws of the public operations, stated on the state a call has just      *)
(* produced by making the next call on it.                                 *)
(***************************************************************************)
\* What a client can observe of a world: the answer of query for every cell
\* and the dump.
Observable(w) ==
  [queries |-> [id \in CellIds |-> query(w, id)], dumped |-> dump(w)]

\* C21: from any reachable state, delete(id) performed twice in a row leaves
\* the same observable state (the query result of every cell and the dump)
\* as delete(id) performed once: after a delete(id), whatever its outcome,
\* one more delete(id) changes nothing a client can observe.
DeleteTwiceIsDeleteOnce ==
  last.op = "delete" =>
    Observable(delete(World(0), last.id).w) = Observable(World(0))

\* A successful delete of a cell that others depend on has just been made,
\* and a second delete of the same cell recomputes the dependents again.
DeletedDependedCellThenAgain ==
  /\ last.op = "delete"
  /\ last.err = ""
  /\ last.updates # EmptyMap
  /\ delete(World(0), last.id).err = ""
  /\ delete(World(0), last.id).updates # EmptyMap

\* The cells of cs with their dependents as sets: two cell tables that agree
\* here agree on every cell's formula, value and dependents set.
CellsUnordered(cs) ==
  [id \in DOMAIN cs |-> [ast |-> cs[id].ast, value |-> cs[id].value,
                         dependents |-> Range(cs[id].dependents)]]

\* C22: from any reachable state in which eval(id, f) succeeds, an
\* immediately repeated eval(id, f) also succeeds, returns the same updates
\* map and leaves every cell's formula, value and dependents set as they
\* were after the first call.
EvalTwiceIsEvalOnce ==
  (last.op = "eval" /\ last.err = "") =>
    LET again == eval(World(0), last.id, last.formula, TRUE)
    IN  /\ again.err = ""
        /\ again.updates = last.updates
        /\ CellsUnordered(again.w.cells) = CellsUnordered(cells)

\* An eval of a formula with a reference has just succeeded on a cell that
\* others depend on, so that repeating it removes and re-adds a dependent
\* and recomputes more than one cell.
EvaluatedReferringDependedCell ==
  /\ last.op = "eval"
  /\ last.err = ""
  /\ RefsOf(cells[last.id].ast) # {}
  /\ cells[last.id].dependents # <<>>
  /\ Cardinality(DOMAIN last.updates) > 1

\* The formula, value and dependents set of the cell id in the cell table
\* cs, an unknown cell showing as an empty one.
CellView(cs, id) ==
  IF id \in DOMAIN cs
  THEN [ast |-> cs[id].ast, value |-> cs[id].value,
        dependents |-> Range(cs[id].dependents)]
  ELSE [ast |-> NullAst, value |-> 0, dependents |-> {}]

\* C23: delete(id) on a cell that is unknown or has no formula is a no-op
\* apart from the store delete: it succeeds, changes no cell's formula,
\* value or dependents set, and makes exactly one database call, the
\* store's delete (with the second database call set to fail, the call
\* still succeeds and leaves that failure unused).
DeleteOfEmptyOnlyAsksStore ==
  \A id \in CellIds :
    IsEmptyCell(cells, id) =>
      LET r == delete(World(2), id)
      IN  /\ r.err = ""
          /\ r.w.failIn = 1
          /\ \A k \in DOMAIN cells \cup DOMAIN r.w.cells :
               CellView(r.w.cells, k) = CellView(cells, k)

\* C24: a clear() that succeeds leaves the cell table empty, so that the
\* query of every id returns value 0 and formula '' and dump() is empty; a
\* clear() whose store call fails throws and leaves the cells as they were.
ClearEmptiesOrLeavesCells ==
  LET cleared == clear(World(0))
      failed == clear(World(1))
  IN  /\ cleared.err = ""
      /\ cleared.w.cells = EmptyMap
      /\ \A id \in CellIds :
           query(cleared.w, id) = [err |-> "", value |-> 0, formula |-> <<>>]
      /\ dump(cleared.w) = [diverges |-> FALSE, pairs |-> <<>>]
      /\ failed.err = "DB"
      /\ failed.w.cells = cells

ClearedSheetWithDependedCell ==
  /\ \E id \in DOMAIN cells :
       /\ ~IsEmptyCell(cells, id) /\ cells[id].dependents # <<>>
       /\ query(World(0), id).value # 0
  /\ dump(World(0)).pairs # <<>>
  /\ clear(World(0)).w.cells = EmptyMap
  /\ clear(World(1)).w.cells = cells

(***************************************************************************)
(* The context menu (showMenu).  A menu item is a record with the optional *)
(* fields menuLabel, menuItemFn and menuItemFnArgs; the calls the menu     *)
(* makes to the functions of its items are logged in last.calls.           *)
(***************************************************************************)
\* The most calls a behaviour logs.
MaxCalls == 2

\* The most items a menu has.
MaxMenuItems == 2

MenuItemSpecs ==
  { [menuLabel |-> "Hello"],
    [menuLabel |-> "Bad", menuItemFn |-> "hello"],
    [menuLabel |-> "Copy", menuItemFn |-> "copy",
     menuItemFnArgs |-> <<A1, B1>>],
    [menuLabel |-> "Clear", menuItemFn |-> "clear", menuItemFnArgs |-> <<>>] }

MenuSpecs ==
  UNION { [1..n -> MenuItemSpecs] : n \in 1..MaxMenuItems }

MenuInit ==
  /\ cells = EmptyMap
  /\ undos = EmptyMap
  /\ store = EmptyMap
  /\ nops = 0
  /\ last = [op |-> "make", menuItems |-> <<>>, isVisible |-> FALSE,
             menuIndex |-> 0, calls |-> <<>>]

\* showMenu(ev, menuSpec): the new Menu replaces the one shown before.
showMenu ==
  \E menuItems \in MenuSpecs :
    /\ last' = [last EXCEPT !.op = "showMenu", !.menuItems = menuItems,
                            !.isVisible = TRUE, !.menuIndex = 0]
    /\ UNCHANGED <<cells, undos, store, nops>>

\* Menu.render(): the props that the i-th MenuItem is given.
MenuItemProps(menuItems, i) ==
  [menuSelect |-> "selectItem", menuIndex |-> i - 1, menuItem |-> menuItems[i]]

\* MenuItem.clickHandler(): the menu with state st after a click on the
\* item with these props.
clickHandler(props, st) ==
  LET selected == [st EXCEPT !.isVisible = FALSE]
      args == IF "menuItemFnArgs" \in DOMAIN props
              THEN props.menuItemFnArgs ELSE <<>>
  IN  IF "menuItemFn" \in DOMAIN props.menuItem
      THEN [selected EXCEPT
              !.calls = Append(@, [fn |-> props.menuItem.menuItemFn,
                                   args |-> args])]
      ELSE selected

\* A click on one of the items of the menu that is shown.
MenuItemClick ==
  /\ last.isVisible
  /\ Len(last.calls) < MaxCalls
  /\ \E i \in 1..Len(last.menuItems) :
       last' = [clickHandler(MenuItemProps(last.menuItems, i), last)
                  EXCEPT !.op = "click", !.menuIndex = i]
  /\ UNCHANGED <<cells, undos, store, nops>>

\* Menu.outsideClickHandler(event) for a click outside of the menu.
outsideClickHandler ==
  /\ last.isVisible
  /\ last' = [last EXCEPT !.op = "outsideClick", !.isVisible = FALSE]
  /\ UNCHANGED <<cells, undos, store, nops>>

MenuNext == showMenu \/ MenuItemClick \/ outsideClickHandler

SpecMenu == MenuInit /\ [][MenuNext]_vars

\* C25: when a menu item that has both a menuItemFn and a menuItemFnArgs
\* list is selected, its menuItemFn is called with exactly the arguments
\* listed in that item's menuItemFnArgs.
SelectedItemFnGetsItsArgs ==
  (/\ last.op = "click"
   /\ {"menuItemFn", "menuItemFnArgs"} \subseteq
        DOMAIN last.menuItems[last.menuIndex]) =>
    /\ last.calls # <<>>
    /\ last.calls[Len(last.calls)] =
         [fn |-> last.menuItems[last.menuIndex].menuItemFn,
          args |-> last.menuItems[last.menuIndex].menuItemFnArgs]

(***************************************************************************)
(* Calls that must not be rejected.                                        *)
(***************************************************************************)
\* The cells cs with the formula of cell id replaced by ast.
WithFormula(cs, id, ast) ==
  [k \in DOMAIN cs \cup {id} |->
     IF k = id THEN [ast |-> ast] ELSE [ast |-> cs[k].ast]]

\* Installing ast in cell id would make id refer to itself through the
\* formulas of cs.
WouldReferToItself(cs, id, ast) ==
  RefersToTrans(WithFormula(cs, id, ast), id, id)

\* C26: in every reachable state, eval(id, f) with a well-formed, in-range
\* formula f that would not make id refer to itself through the current
\* formulas, and with a store that does not fail, completes successfully.
EvalOfAcyclicFormulaSucceeds ==
  \A id \in CellIds, str \in Formulas :
    LET parsed == parseExpr(str, id)
    IN  (parsed.err = "" /\ ~WouldReferToItself(cells, id, parsed.ast)) =>
          eval(World(0), id, str, TRUE).err = ""

\* C27: in every reachable state, delete(id) completes successfully when
\* the store does not fail.
DeleteSucceedsWhenStoreDoes ==
  \A id \in CellIds : delete(World(0), id).err = ""

\* C28: between calls, whether they succeeded or failed, the ids persisted
\* in the store are the cells that have a formula in memory, and each
\* persisted formula parses, in its cell, to the formula held in memory.
StoreAgreesWithMemory ==
  /\ DOMAIN store = {id \in DOMAIN cells : cells[id].ast # NullAst}
  /\ \A id \in DOMAIN store \cap DOMAIN cells :
       /\ parseExpr(store[id], id).err = ""
       /\ parseExpr(store[id], id).ast = cells[id].ast

(***************************************************************************)
(* Two evals in flight.                                                    *)
(***************************************************************************)
\* No formula of cs leads from x to y or from y to x.
Unrelated(cs, x, y) ==
  /\ x # y
  /\ ~RefersTo(cs, x, y) /\ ~RefersToTrans(cs, x, y)
  /\ ~RefersTo(cs, y, x) /\ ~RefersToTrans(cs, y, x)

\* An eval on X was suspended in its store call, an eval on an unrelated
\* cell Y ran and succeeded meanwhile, and the store call of the first then
\* failed.
FirstFailedAfterSecond ==
  /\ last.op = "eval" /\ last.phase = "done" /\ last.dbFailed
  /\ last.second # NoQuery
  /\ last.second.err = ""
  /\ Unrelated(last.pre, cellRefToCellId(last.id), last.second.id)
  /\ Unrelated(last.second.post, cellRefToCellId(last.id), last.second.id)

\* C29: when an eval on X is suspended in its store call, a second eval on
\* an unrelated cell Y starts and succeeds, and the store call of the first
\* then fails, the rollback of the first leaves X as it was before the first
\* eval and Y with the formula and value the second eval installed.
RollbackUndoesOnlyItsOwnEval ==
  FirstFailedAfterSecond =>
    /\ CellView(cells, cellRefToCellId(last.id)) =
         CellView(last.pre, cellRefToCellId(last.id))
    /\ QueryOn(cells, last.second.id) =
         QueryOn(last.second.post, last.second.id)

(***************************************************************************)
(* Names in function position: a client evaluates calls name(1) of the     *)
(* names below and clears the sheet.                                       *)
(***************************************************************************)
FnNames ==
  { MIN, MAX, <<"f", "o", "o">>, <<"s", "u", "m">>,
    <<"t", "o", "S", "t", "r", "i", "n", "g">>,
    <<"v", "a", "l", "u", "e", "O", "f">>,
    <<"c", "o", "n", "s", "t", "r", "u", "c", "t", "o", "r">> }

CallOf(name) == name \o <<"(", "1", ")">>

FnFormulas == {CallOf(name) : name \in FnNames} \cup {<<"1">>}

\* The step of a call that ended as r.
FnStep(op, id, str, r) ==
  /\ nops < MaxOps
  /\ nops' = nops + 1
  /\ cells' = r.w.cells
  /\ undos' = r.w.undos
  /\ store' = r.w.store
  /\ last' = [op |-> op, id |-> id, src |-> <<>>, formula |-> str,
              err |-> r.err, updates |-> r.updates, dbFailed |-> FALSE]

FnEval ==
  \E id \in CellIds, str \in FnFormulas :
    FnStep("eval", id, str, eval(World(0), id, str, TRUE))

FnClear == FnStep("clear", <<>>, <<>>, clear(World(0)))

FnNext == FnEval \/ FnClear

SpecFn == Init /\ [][FnNext]_vars

\* The names applied in an ast.
RECURSIVE FnsOf(_)
FnsOf(ast) ==
  IF ast.type = "app"
  THEN {ast.fn} \cup UNION {FnsOf(ast.kids[i]) : i \in 1..Len(ast.kids)}
  ELSE {}

\* C30: the lexer makes an identifier a function token only if it is 'min'
\* or 'max'; so an eval of a formula with any other name in function
\* position fails with SYNTAX, and no cell holds a formula that applies
\* such a name.
OnlyMinAndMaxAreFunctions ==
  /\ last.op = "eval" =>
       LET baseCell == CellRef(last.id, NullRef)
           scanned == scan(last.formula,
                           [col |-> baseCell.col, row |-> baseCell.row])
       IN  \A i \in 1..Len(scanned.toks) :
             scanned.toks[i].type = "fn" =>
               scanned.toks[i].lexeme \in {MIN, MAX}
  /\ (last.op = "eval" /\
      \E name \in FnNames \ {MIN, MAX} : last.formula = CallOf(name)) =>
       last.err = "SYNTAX"
  /\ \A id \in DOMAIN cells : FnsOf(cells[id].ast) \subseteq FNS_KEYS

(***************************************************************************)
(* The parentheses of a printed unary minus.                               *)
(***************************************************************************)
\* A unary minus was printed without error.
UnaryMinusPrinted ==
  /\ last.op # "ast" /\ last.err = ""
  /\ last.ast.type = "app" /\ last.ast.fn = MINUS /\ Len(last.ast.kids) = 1

\* The operand of the printed unary minus, printed on its own.
OperandPrinted == toString(last.ast.kids[1], last.base).str

\* The printed string is '-' and the operand, in parentheses or bare.
PrintedAs(isParen) ==
  last.str = IF isParen THEN <<"-", "(">> \o OperandPrinted \o <<")">>
             ELSE <<"-">> \o OperandPrinted

IsOperatorApp(ast) ==
  ast.type = "app" /\ ast.fn \in {PLUS, MINUS, TIMES, DIVIDE}

IsBinaryApp(ast) == IsOperatorApp(ast) /\ Len(ast.kids) = 2

DumpTerminates == ~dump(World(0)).diverges

\* A delete has just failed, and dump() lists several cells in more than
\* one round: some listed cell has a prerequisite.
DumpedInRoundsAfterFailedDelete ==
  /\ last.op = "delete" /\ last.err # ""
  /\ ~dump(World(0)).diverges
  /\ Len(dump(World(0)).pairs) >= 2
  /\ \E id \in DOMAIN _makePrereqs(World(0)) : _makePrereqs(World(0))[id] # {}

====
